---- MODULE Spec2Model ----
(***************************************************************************)
(* A model of the virtual orchestration core of ASXR:                      *)
(*   - HiveOrchestrator (src/server/core/hive-orchestrator.js)             *)
(*   - KuhulVM, the glyph engine (src/lib/klh/client.js, lines 168-403)    *)
(*                                                                         *)
(* Source text is modelled as text: a program is a TLA+ string and parse   *)
(* works on its characters as the JavaScript does (split, trim, the line   *)
(* pattern, the whitespace tokenizer).  JavaScript values are tagged       *)
(* records.  Every `await` of the code is a point where another request    *)
(* may run; an action runs one synchronous block of one request.           *)
(***************************************************************************)
EXTENDS Integers, Sequences, FiniteSets, TLC

(***************************************************************************)
(* Bounds of the model.                                                    *)
(***************************************************************************)
\* routeToShard calls started in one behaviour
MaxCalls == 2
\* createShard calls made directly (POST /api/hive/shards) and boot calls
\* started in one behaviour
MaxSetups == 1

(***************************************************************************)
(* Text.  A text is a TLA+ string; Len, \o and SubSeq act on it.           *)
(***************************************************************************)
CharAt(s, i) == SubSeq(s, i, i)

\* String.prototype.slice(from) with a 0-based, non-negative from
DropFirst(s, n) == IF n >= Len(s) THEN "" ELSE SubSeq(s, n + 1, Len(s))

\* the characters \w of a JavaScript pattern matches
WordChars ==
    {"a","b","c","d","e","f","g","h","i","j","k","l","m","n","o","p","q","r",
     "s","t","u","v","w","x","y","z",
     "A","B","C","D","E","F","G","H","I","J","K","L","M","N","O","P","Q","R",
     "S","T","U","V","W","X","Y","Z",
     "0","1","2","3","4","5","6","7","8","9","_"}

\* the characters \s matches and trim() strips, among those a program of the
\* model is written with (a line never holds "\n": split removed it)
SpaceChars == {" ", "\t", "\r", "\n"}

Digits == {"0","1","2","3","4","5","6","7","8","9"}

StartsWith(s, p) == Len(s) >= Len(p) /\ SubSeq(s, 1, Len(p)) = p

\* index of the first character of s at or after i that is not in cs
RECURSIVE SkipIn(_, _, _)
SkipIn(s, i, cs) ==
    IF i <= Len(s) /\ CharAt(s, i) \in cs THEN SkipIn(s, i + 1, cs) ELSE i

\* index of the first character of s at or after i that is in cs
RECURSIVE SkipOut(_, _, _)
SkipOut(s, i, cs) ==
    IF i <= Len(s) /\ CharAt(s, i) \notin cs THEN SkipOut(s, i + 1, cs) ELSE i

\* index of the last character of s at or before i that is not in cs (0: none)
RECURSIVE SkipBack(_, _, _)
SkipBack(s, i, cs) ==
    IF i >= 1 /\ CharAt(s, i) \in cs THEN SkipBack(s, i - 1, cs) ELSE i

\* String.prototype.trim
Trim(s) ==
    LET a == SkipIn(s, 1, SpaceChars)
        b == SkipBack(s, Len(s), SpaceChars)
    IN  IF a > b THEN "" ELSE SubSeq(s, a, b)

\* String.prototype.split(sep) for a separator of one character
RECURSIVE SplitOn(_, _)
SplitOn(s, sep) ==
    LET j == SkipOut(s, 1, {sep})
    IN  IF j > Len(s) THEN <<s>>
        ELSE <<SubSeq(s, 1, j - 1)>> \o SplitOn(DropFirst(s, j), sep)

\* s.split(/\s+/).filter(Boolean): the maximal runs of non-space characters
RECURSIVE Tokens(_)
Tokens(s) ==
    LET a == SkipIn(s, 1, SpaceChars)
        b == SkipOut(s, a, SpaceChars)
    IN  IF a > Len(s) THEN <<>>
        ELSE <<SubSeq(s, a, b - 1)>> \o Tokens(DropFirst(s, b - 1))

\* Array.prototype.join(sep) of an array of texts
RECURSIVE JoinWith(_, _)
JoinWith(ts, sep) ==
    IF Len(ts) = 0 THEN ""
    ELSE IF Len(ts) = 1 THEN ts[1]
    ELSE ts[1] \o sep \o JoinWith(Tail(ts), sep)

\* value.slice(1, -1)
Slice1m1(s) == IF Len(s) <= 2 THEN "" ELSE SubSeq(s, 2, Len(s) - 1)

(***************************************************************************)
(* JavaScript values, as tagged records.  A number is an integer or NaN    *)
(* (the texts of the model hold no sign, point, exponent, radix prefix or  *)
(* "Infinity", so no other number can arise).  An object is a function     *)
(* from its keys to values; a Map is modelled the same way (no operation   *)
(* of the model reads a Map's insertion order).                            *)
(***************************************************************************)
Undef == [t |-> "undefined"]
Null == [t |-> "null"]
NaN == [t |-> "NaN"]
Str(s) == [t |-> "string", s |-> s]
Num(n) == [t |-> "number", n |-> n]
Bool(b) == [t |-> "boolean", b |-> b]
Arr(a) == [t |-> "array", a |-> a]
Obj(f) == [t |-> "object", f |-> f]
\* the shard instance of hive-orchestrator.js:91-101, by reference: vm is
\* the engine it owns (0: none)
ShardRef(id, port, runtime, vm) ==
    [t |-> "shard", id |-> id, port |-> port, runtime |-> runtime, vm |-> vm]

EmptyMap == [k \in {} |-> Undef]

\* Map.prototype.set / obj[k] = v
MapSet(m, k, v) == [y \in DOMAIN m \cup {k} |-> IF y = k THEN v ELSE m[y]]

\* Map.prototype.get / obj[k] of an own property
MapGet(m, k) == IF k \in DOMAIN m THEN m[k] ELSE Undef

\* ToBoolean
Truthy(v) ==
    CASE v.t = "undefined" -> FALSE
      [] v.t = "null" -> FALSE
      [] v.t = "NaN" -> FALSE
      [] v.t = "string" -> v.s # ""
      [] v.t = "number" -> v.n # 0
      [] v.t = "boolean" -> v.b
      [] OTHER -> TRUE

\* a || b
OrElse(a, b) == IF Truthy(a) THEN a ELSE b

DigitText == <<"0","1","2","3","4","5","6","7","8","9">>

\* String(n) of a non-negative integer
RECURSIVE NatText(_)
NatText(n) ==
    IF n < 10 THEN DigitText[n + 1]
    ELSE NatText(n \div 10) \o DigitText[(n % 10) + 1]

DigitValue(c) == CHOOSE d \in 0..9 : DigitText[d + 1] = c

\* the value of a text of decimal digits
RECURSIVE NatOf(_)
NatOf(s) ==
    IF Len(s) = 0 THEN 0
    ELSE 10 * NatOf(SubSeq(s, 1, Len(s) - 1)) + DigitValue(CharAt(s, Len(s)))

AllDigits(s) == Len(s) > 0 /\ \A i \in 1..Len(s) : CharAt(s, i) \in Digits

\* String(v), as a template literal and Array.prototype.join render a value
\* (join renders undefined and null as the empty text: see ArgText)
RECURSIVE ToText(_)
ToText(v) ==
    CASE v.t = "undefined" -> "undefined"
      [] v.t = "null" -> "null"
      [] v.t = "NaN" -> "NaN"
      [] v.t = "string" -> v.s
      [] v.t = "number" ->
            IF v.n < 0 THEN "-" \o NatText(0 - v.n) ELSE NatText(v.n)
      [] v.t = "boolean" -> IF v.b THEN "true" ELSE "false"
      [] v.t = "array" ->
            JoinWith([i \in 1..Len(v.a) |->
                        IF v.a[i].t \in {"undefined", "null"} THEN ""
                        ELSE ToText(v.a[i])], ",")
      [] OTHER -> "[object Object]"

\* one element of args.join(' ')
ArgText(v) == IF v.t \in {"undefined", "null"} THEN "" ELSE ToText(v)

\* args.join(' ')
JoinArgs(args) == JoinWith([i \in 1..Len(args) |-> ArgText(args[i])], " ")

(***************************************************************************)
(* JSON.parse, on the JSON texts a program of the model can hold: strings  *)
(* without escapes, decimal integers, true, false, null, arrays, objects.  *)
(* A result is [ok, v, i]: whether a value was read, the value, and the    *)
(* index after it.                                                         *)
(***************************************************************************)
JFail == [ok |-> FALSE, v |-> Undef, i |-> 0]
JOk(v, i) == [ok |-> TRUE, v |-> v, i |-> i]

RECURSIVE JValue(_, _)
RECURSIVE JElems(_, _, _)
RECURSIVE JMembers(_, _, _)

JValue(s, i) ==
    LET j == SkipIn(s, i, SpaceChars)
        c == IF j <= Len(s) THEN CharAt(s, j) ELSE ""
        rest == DropFirst(s, j - 1)
    IN  CASE c = "\"" ->
                LET k == SkipOut(s, j + 1, {"\""})
                IN  IF k > Len(s) THEN JFail
                    ELSE JOk(Str(SubSeq(s, j + 1, k - 1)), k + 1)
          [] c \in Digits ->
                LET b == SkipIn(s, j, Digits)
                    d == SubSeq(s, j, b - 1)
                IN  IF Len(d) > 1 /\ CharAt(d, 1) = "0" THEN JFail
                    ELSE JOk(Num(NatOf(d)), b)
          [] c = "t" -> IF StartsWith(rest, "true") THEN JOk(Bool(TRUE), j + 4) ELSE JFail
          [] c = "f" -> IF StartsWith(rest, "false") THEN JOk(Bool(FALSE), j + 5) ELSE JFail
          [] c = "n" -> IF StartsWith(rest, "null") THEN JOk(Null, j + 4) ELSE JFail
          [] c = "[" ->
                LET k == SkipIn(s, j + 1, SpaceChars)
                IN  IF k <= Len(s) /\ CharAt(s, k) = "]" THEN JOk(Arr(<<>>), k + 1)
                    ELSE JElems(s, j + 1, <<>>)
          [] c = "{" ->
                LET k == SkipIn(s, j + 1, SpaceChars)
                IN  IF k <= Len(s) /\ CharAt(s, k) = "}" THEN JOk(Obj(EmptyMap), k + 1)
                    ELSE JMembers(s, j + 1, EmptyMap)
          [] OTHER -> JFail

\* the elements of an array from index i on, acc being those read so far
JElems(s, i, acc) ==
    LET r == JValue(s, i)
        k == SkipIn(s, r.i, SpaceChars)
        c == IF k <= Len(s) THEN CharAt(s, k) ELSE ""
    IN  IF ~r.ok THEN JFail
        ELSE IF c = "," THEN JElems(s, k + 1, Append(acc, r.v))
        ELSE IF c = "]" THEN JOk(Arr(Append(acc, r.v)), k + 1)
        ELSE JFail

\* the members of an object from index i on, acc being those read so far
JMembers(s, i, acc) ==
    LET kr == JValue(s, i)
        c1 == SkipIn(s, kr.i, SpaceChars)
        vr == JValue(s, c1 + 1)
        k == SkipIn(s, vr.i, SpaceChars)
        c == IF k <= Len(s) THEN CharAt(s, k) ELSE ""
    IN  IF ~kr.ok \/ kr.v.t # "string" THEN JFail
        ELSE IF c1 > Len(s) \/ CharAt(s, c1) # ":" THEN JFail
        ELSE IF ~vr.ok THEN JFail
        ELSE IF c = "," THEN JMembers(s, k + 1, MapSet(acc, kr.v.s, vr.v))
        ELSE IF c = "}" THEN JOk(Obj(MapSet(acc, kr.v.s, vr.v)), k + 1)
        ELSE JFail

\* JSON.parse(s): ok is FALSE where it throws a SyntaxError
JSONParse(s) ==
    LET r == JValue(s, 1)
    IN  IF r.ok /\ SkipIn(s, r.i, SpaceChars) > Len(s) THEN r ELSE JFail

(***************************************************************************)
(* KuhulVM: parse.                                                         *)
(***************************************************************************)
\* the pattern /^\[(\w+'?)\s*(.*?)\]$/ on one trimmed line: \w+ takes the
\* longest run of word characters after "[", '? one quote after it, \s* the
\* spaces after that, and (.*?) all that is left before the closing "]"
\* ("." matches no line terminator).  ok is FALSE where match() is null.
MatchLine(line) ==
    LET n == Len(line)
        w == SkipIn(line, 2, WordChars)
        q == IF w <= n /\ CharAt(line, w) = "'" THEN w + 1 ELSE w
        a == SkipIn(line, q, SpaceChars)
        argsStr == IF a > n - 1 THEN "" ELSE SubSeq(line, a, n - 1)
    IN  IF /\ n >= 3
           /\ CharAt(line, 1) = "["
           /\ CharAt(line, 2) \in WordChars
           /\ CharAt(line, n) = "]"
           /\ \A i \in 1..Len(argsStr) : CharAt(argsStr, i) \notin {"\r", "\n"}
        THEN [ok |-> TRUE, glyph |-> SubSeq(line, 2, q - 1), argsStr |-> argsStr]
        ELSE [ok |-> FALSE, glyph |-> "", argsStr |-> ""]

\* the instructions of the lines ls (the loop of parse, client.js:222-234);
\* the field raw of an instruction is never read and is left out
RECURSIVE ParseLines(_)
ParseLines(ls) ==
    IF Len(ls) = 0 THEN <<>>
    ELSE LET line == Trim(ls[1])
             m == MatchLine(line)
             toks == Tokens(m.argsStr)
             here == IF line = "" \/ StartsWith(line, "#") \/ ~m.ok THEN <<>>
                     ELSE <<[glyph |-> m.glyph,
                             args |-> [i \in 1..Len(toks) |-> Str(toks[i])]]>>
         IN  here \o ParseLines(Tail(ls))

\* KuhulVM.parse(code): code is a JavaScript value
parse(code) ==
    IF code.t # "string" THEN <<[glyph |-> "Sek", args |-> <<code>>]>>
    ELSE ParseLines(SplitOn(code.s, "\n"))

(***************************************************************************)
(* KuhulVM: the engine state and the glyph handlers.  A handler maps an    *)
(* engine state and the args to [vm, st, ...]: st is "ok", "throw" (with   *)
(* the error's name err), "call" (a nested execute of code with context    *)
(* ctx is awaited) or "each" (the for_each loop over arr is entered).      *)
(***************************************************************************)
\* new KuhulVM(): halted, currentFunction and loopContext are not set by the
\* constructor, so they read as undefined
NewVM ==
    [stack |-> <<>>, variables |-> EmptyMap, functions |-> EmptyMap,
     halted |-> Undef, currentFunction |-> Undef, loopContext |-> Undef]

\* args[i] of JavaScript (0-based)
ArgAt(args, i) == IF i + 1 <= Len(args) THEN args[i + 1] ELSE Undef

\* this.stack.pop(): the popped value and the stack left
PopValue(stack) == IF Len(stack) = 0 THEN Undef ELSE stack[Len(stack)]
PopRest(stack) == IF Len(stack) = 0 THEN <<>> ELSE SubSeq(stack, 1, Len(stack) - 1)

Push(vm, v) == [vm EXCEPT !.stack = Append(@, v)]

HOk(vm) ==
    [vm |-> vm, st |-> "ok", err |-> "", code |-> Undef, ctx |-> EmptyMap,
     arr |-> Undef]
HThrow(vm, name) ==
    [vm |-> vm, st |-> "throw", err |-> name, code |-> Undef, ctx |-> EmptyMap,
     arr |-> Undef]
HCall(vm, code, ctx) ==
    [vm |-> vm, st |-> "call", err |-> "", code |-> code, ctx |-> ctx,
     arr |-> Undef]
\* the loop of for_each over arr is entered, each turn awaiting execute(code)
HEach(vm, arr, code) ==
    [vm |-> vm, st |-> "each", err |-> "", code |-> code, ctx |-> EmptyMap,
     arr |-> arr]

gPop(vm, args) ==
    LET funcName == ArgAt(args, 0)
    IN  IF Truthy(funcName)
        THEN HOk([vm EXCEPT !.currentFunction = funcName,
                            !.functions = MapSet(@, ToText(funcName), <<>>)])
        ELSE HOk(vm)

\* the value gWo pushes for the text value (client.js:275-283); ok is FALSE
\* where JSON.parse throws
WoValue(value) ==
    IF StartsWith(value, "\"") \/ StartsWith(value, "'")
    THEN JOk(Str(Slice1m1(value)), 0)
    ELSE IF value = "true" \/ value = "false" THEN JOk(Bool(value = "true"), 0)
    ELSE IF value = "" THEN JOk(NaN, 0)
    ELSE IF AllDigits(value) THEN JOk(Num(NatOf(value)), 0)
    ELSE IF StartsWith(value, "{") \/ StartsWith(value, "[") THEN JSONParse(value)
    ELSE JOk(Str(value), 0)

gWo(vm, args) ==
    LET r == WoValue(JoinArgs(args))
    IN  IF r.ok THEN HOk(Push(vm, r.v)) ELSE HThrow(vm, "SyntaxError")

gChen(vm, args) ==
    LET varName == ArgAt(args, 0)
        value == PopValue(vm.stack)
        popped == [vm EXCEPT !.stack = PopRest(@)]
    IN  IF Truthy(varName)
        THEN HOk([popped EXCEPT !.variables = MapSet(@, ToText(varName), value)])
        ELSE HOk(Push(popped, value))

gYax(vm, args) ==
    LET varName == ArgAt(args, 0)
        value == IF varName.t = "string" THEN MapGet(vm.variables, varName.s) ELSE Undef
    IN  IF value # Undef THEN HOk(Push(vm, value)) ELSE HOk(Push(vm, Null))

\* obj?.[key]: an own property of a plain object; the key gSek passes is
\* always undefined (operation is 'get' only when args has one element), and
\* no other kind of value has a property named "undefined"
GetProp(obj, key) ==
    IF obj.t = "object" THEN MapGet(obj.f, ToText(key)) ELSE Undef

PassThroughOps ==
    {"scx_decompress", "xjson_parse", "xj_compile_view", "register_virtual_api",
     "start_virtual_server"}

ProcessOps == {"process", "process_data", "send_response"}

gSek(vm, args) ==
    LET operation == JoinArgs(args)
        top == PopValue(vm.stack)
        popped == [vm EXCEPT !.stack = PopRest(@)]
    IN  IF StartsWith(operation, "\"") \/ StartsWith(operation, "'")
        THEN HOk(Push(vm, Str(Slice1m1(operation))))
        ELSE CASE operation = "get" ->
                    HOk(Push(popped, OrElse(GetProp(top, ArgAt(args, 1)), Null)))
               [] operation \in {"for_each", "forEach"} ->
                    IF top.t = "array" THEN HEach(popped, top.a, ArgAt(args, 1))
                    ELSE HOk(popped)
               [] operation \in PassThroughOps -> HOk(Push(popped, top))
               [] operation \in ProcessOps ->
                    HOk(Push(popped, Obj([processed |-> Bool(TRUE), data |-> top])))
               [] OTHER ->
                    IF operation \in DOMAIN vm.functions
                    THEN HCall(vm, Str(JoinWith(vm.functions[operation], "\n")),
                               vm.variables)
                    ELSE HOk(Push(vm, Obj([operation |-> Str(operation),
                                           executed |-> Bool(TRUE)])))

gKayab(vm, args) ==
    HOk([vm EXCEPT !.loopContext =
            Obj([name |-> ArgAt(args, 0), iterations |-> Num(0)])])

gKumku(vm, args) == HOk([vm EXCEPT !.loopContext = Null])

gXul(vm, args) == HOk([vm EXCEPT !.halted = Bool(TRUE)])

(***************************************************************************)
(* KuhulVM: executeInstruction and execute.                                *)
(***************************************************************************)
\* the own keys of this.glyphs (client.js:173-182)
OwnGlyphs == {"Pop", "Wo", "Ch'en", "Yax", "Sek", "K'ayab'", "Kumk'u", "Xul"}

\* this.glyphs is a plain object, so this.glyphs[name] also finds what it
\* inherits from Object.prototype.  Called as handler(args) with no receiver
\* (class code is strict: this is undefined), constructor and toString
\* return without an effect ...
InheritedInert == {"constructor", "toString"}

\* ... and these throw a TypeError: the methods convert the undefined
\* receiver to an object, and __proto__ is an object, not a function
InheritedThrowing ==
    {"valueOf", "hasOwnProperty", "isPrototypeOf", "propertyIsEnumerable",
     "toLocaleString", "__proto__", "__defineGetter__", "__defineSetter__",
     "__lookupGetter__", "__lookupSetter__"}

\* KuhulVM.executeInstruction(inst), up to the first await inside a handler
executeInstruction(vm, inst) ==
    CASE inst.glyph = "Pop" -> gPop(vm, inst.args)
      [] inst.glyph = "Wo" -> gWo(vm, inst.args)
      [] inst.glyph = "Ch'en" -> gChen(vm, inst.args)
      [] inst.glyph = "Yax" -> gYax(vm, inst.args)
      [] inst.glyph = "Sek" -> gSek(vm, inst.args)
      [] inst.glyph = "K'ayab'" -> gKayab(vm, inst.args)
      [] inst.glyph = "Kumk'u" -> gKumku(vm, inst.args)
      [] inst.glyph = "Xul" -> gXul(vm, inst.args)
      [] inst.glyph \in InheritedThrowing -> HThrow(vm, "TypeError")
      [] OTHER -> HOk(vm)

\* the seeding of execute (client.js:190-192)
SeedContext(vm, context) ==
    [vm EXCEPT !.variables =
        [k \in DOMAIN @ \cup DOMAIN context |->
            IF k \in DOMAIN context THEN context[k] ELSE @[k]]]

\* a return of the bottom of the stack, to be told apart from the return of
\* the code by the property of C9
ReturnValue_Bottom(vm) ==
    IF Len(vm.stack) > 0 THEN vm.stack[1] ELSE Obj(vm.variables)

\* the value execute returns (client.js:205-207)
ReturnValue(vm) ==
    IF Len(vm.stack) > 0 THEN vm.stack[Len(vm.stack)] ELSE Obj(vm.variables)

(***************************************************************************)
(* A running call is an engine and a stack of frames, the innermost last:  *)
(*   [k |-> "exec", insts, pc]    an execute, about to dispatch insts[pc]  *)
(*   [k |-> "each", arr, i, fn]   the for_each loop of gSek, about to run  *)
(*                                its turn for arr[i]                      *)
(* Run is [vm, frames, st, value, err]: st is "await" (suspended at an     *)
(* await), "done" (the outermost execute returned value) or "throw" (err   *)
(* leaves the outermost execute).  Between two awaits the code runs        *)
(* without interruption.                                                   *)
(***************************************************************************)
ExecFrame(insts) == [k |-> "exec", insts |-> insts, pc |-> 1, arr |-> <<>>, i |-> 0, fn |-> Undef]
EachFrame(arr, fn) == [k |-> "each", insts |-> <<>>, pc |-> 0, arr |-> arr, i |-> 1, fn |-> fn]

Running(vm, frames) == [vm |-> vm, frames |-> frames, st |-> "await", value |-> Undef, err |-> ""]
Returned(vm, frames, value) == [vm |-> vm, frames |-> frames, st |-> "done", value |-> value, err |-> ""]
Thrown(vm, frames, err) == [vm |-> vm, frames |-> frames, st |-> "throw", value |-> Undef, err |-> err]

TopFrame(frames) == frames[Len(frames)]
PopFrame(frames) == SubSeq(frames, 1, Len(frames) - 1)
SetTop(frames, f) == [frames EXCEPT ![Len(frames)] = f]

RECURSIVE RunLoop(_, _)
RECURSIVE EnterExec(_, _, _, _)
RECURSIVE EachTurn(_, _)

\* what follows the handler result h of an instruction, frames being the
\* frames with that instruction counted as dispatched
AfterInstruction(h, frames) ==
    CASE h.st = "ok" -> Running(h.vm, frames)
      [] h.st = "throw" -> Thrown(h.vm, frames, h.err)
      [] h.st = "call" -> EnterExec(h.vm, frames, h.code, h.ctx)
      [] h.st = "each" ->
            IF Len(h.arr) = 0 THEN Running(h.vm, frames)
            ELSE EachTurn(h.vm, Append(frames, EachFrame(h.arr, h.code)))

\* a loop of execute that starts over from its first instruction when it has
\* dispatched its last one on an empty stack
RunLoop_JumpBack(vm, frames) ==
    IF TopFrame(frames).pc <= Len(TopFrame(frames).insts) /\ ~Truthy(vm.halted)
    THEN AfterInstruction(
            executeInstruction(vm, TopFrame(frames).insts[TopFrame(frames).pc]),
            SetTop(frames, [TopFrame(frames) EXCEPT
                               !.pc = IF @ = Len(TopFrame(frames).insts)
                                         /\ Len(vm.stack) = 0
                                      THEN 1 ELSE @ + 1]))
    ELSE IF Len(frames) = 1 THEN Returned(vm, frames, ReturnValue(vm))
    ELSE Running(vm, PopFrame(frames))

\* the head of the loop of execute (client.js:198-207) for the innermost
\* frame: dispatch the next instruction up to its await, or return
RunLoop(vm, frames) ==
    IF TopFrame(frames).pc <= Len(TopFrame(frames).insts) /\ ~Truthy(vm.halted)
    THEN AfterInstruction(
            executeInstruction(vm, TopFrame(frames).insts[TopFrame(frames).pc]),
            SetTop(frames, [TopFrame(frames) EXCEPT !.pc = @ + 1]))
    ELSE IF Len(frames) = 1 THEN Returned(vm, frames, ReturnValue(vm))
    ELSE Running(vm, PopFrame(frames))

\* KuhulVM.execute(code, context) called: seed, parse, run to the first await
EnterExec(vm, frames, code, context) ==
    RunLoop(SeedContext(vm, context), Append(frames, ExecFrame(parse(code))))

\* one turn of the for_each loop (client.js:345-348); the innermost frame is
\* an "each" frame with a turn left
EachTurn(vm, frames) ==
    EnterExec([vm EXCEPT !.variables =
                  MapSet(@, "item", TopFrame(frames).arr[TopFrame(frames).i])],
              SetTop(frames, [TopFrame(frames) EXCEPT !.i = @ + 1]),
              TopFrame(frames).fn,
              MapSet(vm.variables, "item", TopFrame(frames).arr[TopFrame(frames).i]))

\* a suspended call is resumed: the await it sits at completes
RECURSIVE Resume(_, _)
Resume(vm, frames) ==
    LET top == TopFrame(frames)
    IN  IF top.k = "exec" THEN RunLoop(vm, frames)
        ELSE IF top.i <= Len(top.arr) THEN EachTurn(vm, frames)
        ELSE Resume(vm, PopFrame(frames))

\* execute(code, context) on the engine vm with no other call running: the
\* run from its call to its return or throw
RECURSIVE RunToEnd(_)
RunToEnd(r) == IF r.st = "await" THEN RunToEnd(Resume(r.vm, r.frames)) ELSE r

execute(vm, code, context) == RunToEnd(EnterExec(vm, <<>>, code, context))

(***************************************************************************)
(* SCXCodec (src/unnamed/part_000, lines 434-691).  The codec reads the    *)
(* order of an object's keys (Object.entries), so its trees keep it: a     *)
(* container is [t, es] with es the sequence of its entries [k, v] in      *)
(* insertion order; an array's entries are keyed by the texts of its       *)
(* indices, plus whatever named properties were assigned to it.  Keys of   *)
(* the model are none of the names Object.prototype or Array.prototype     *)
(* define.                                                                 *)
(***************************************************************************)
\* keys of one flat tree drawn as input
MaxKeys == 2

Entry(k, v) == [k |-> k, v |-> v]
Record(es) == [t |-> "object", es |-> es]
\* an array literal
List(a) == [t |-> "array", es |-> [i \in 1..Len(a) |-> Entry(NatText(i - 1), a[i])]]
IsContainer(v) == v.t \in {"object", "array"}

\* k in obj
Has(es, k) == \E i \in 1..Len(es) : es[i].k = k
\* obj[k] of an own property
At(es, k) == es[CHOOSE i \in 1..Len(es) : es[i].k = k].v
\* obj[k] = v
Put(es, k, v) ==
    IF Has(es, k) THEN [i \in 1..Len(es) |-> IF es[i].k = k THEN Entry(k, v) ELSE es[i]]
    ELSE Append(es, Entry(k, v))

\* a canonical array index: the decimal text of a natural number
IsIndex(k) ==
    /\ Len(k) > 0
    /\ \A i \in 1..Len(k) : CharAt(k, i) \in Digits
    /\ (Len(k) > 1 => CharAt(k, 1) # "0")
IsIndexEntry(e) == IsIndex(e.k)
IsNamedEntry(e) == ~IsIndex(e.k)

\* the index entries es in ascending order of index
RECURSIVE Ascending(_)
Ascending(es) ==
    IF Len(es) = 0 THEN <<>>
    ELSE LET m == CHOOSE i \in 1..Len(es) :
                      \A j \in 1..Len(es) : NatOf(es[i].k) <= NatOf(es[j].k)
         IN  <<es[m]>> \o Ascending([i \in 1..(Len(es) - 1) |->
                                        IF i < m THEN es[i] ELSE es[i + 1]])

\* the elements forEach and map visit: the index entries, in ascending order
Elements(es) == Ascending(SelectSeq(es, IsIndexEntry))
\* Object.entries(obj): integer keys in ascending order, then the others in
\* insertion order
Entries(es) == Elements(es) \o SelectSeq(es, IsNamedEntry)

\* constructor: this.separator
separator == "⟁"

\* constructor: this.dictionary, in the order of the literal
dictionary ==
    << <<"@shard", "s">>, <<"shard", "s">>, <<"id", "i">>, <<"api", "a">>,
       <<"path", "p">>, <<"method", "m">>, <<"handler", "h">>, <<"view", "v">>,
       <<"@html", "H">>, <<"html", "H">>, <<"@body", "B">>, <<"body", "B">>,
       <<"@node", "n">>, <<"node", "n">>, <<"attrs", "A">>, <<"children", "c">>,
       <<"port", "P">>, <<"runtime", "r">>,
       <<"hive", "H">>, <<"shards", "S">>, <<"mesh", "M">>, <<"protocol", "pr">>,
       <<"ports", "Ps">>,
       <<"Pop", "Pp">>, <<"Wo", "W">>, <<"Ch'en", "C">>, <<"Yax", "Y">>,
       <<"Sek", "S">>, <<"K'ayab'", "K">>, <<"Kumk'u", "Km">>, <<"Xul", "X">>,
       <<"GET", "G">>, <<"POST", "Po">>, <<"PUT", "Pu">>, <<"DELETE", "D">>,
       <<"virtual-rest", "vr">>, <<"kuhul", "k">> >>

LongForms == {dictionary[i][1] : i \in DOMAIN dictionary}
DictTokens == {dictionary[i][2] : i \in DOMAIN dictionary}

\* this.dictionary[text] || text
Short(text) ==
    IF text \in LongForms
    THEN dictionary[CHOOSE i \in DOMAIN dictionary : dictionary[i][1] = text][2]
    ELSE text

\* constructor: this.reverseDictionary = Object.fromEntries(entries.map(
\* ([k, v]) => [v, k])): of the entries with one token the last one stays
reverseDictionary ==
    [tok \in DictTokens |->
        dictionary[CHOOSE i \in DOMAIN dictionary :
                      /\ dictionary[i][2] = tok
                      /\ \A j \in DOMAIN dictionary : dictionary[j][2] = tok => j <= i][1]]

\* this.reverseDictionary[text] || text
Long(text) == IF text \in DictTokens THEN reverseDictionary[text] ELSE text

RECURSIVE compressObject(_)
RECURSIVE compressEntries(_, _)
RECURSIVE decompressObject(_)
RECURSIVE decompressEntries(_, _)
RECURSIVE flattenObject(_, _, _)
RECURSIVE flattenEntries(_, _, _, _)

\* SCXCodec.compressObject
compressObject(obj) ==
    IF obj.t = "array"
    THEN [t |-> "array",
          es |-> [i \in 1..Len(Elements(obj.es)) |->
                    Entry(Elements(obj.es)[i].k, compressObject(Elements(obj.es)[i].v))]]
    ELSE IF obj.t = "object" THEN Record(compressEntries(Entries(obj.es), <<>>))
    ELSE obj

\* the loop of compressObject over Object.entries(obj)
compressEntries(es, compressed) ==
    IF Len(es) = 0 THEN compressed
    ELSE compressEntries(Tail(es),
             Put(compressed, Short(es[1].k),
                 IF es[1].v.t = "string" THEN Str(Short(es[1].v.s))
                 ELSE compressObject(es[1].v)))

\* SCXCodec.decompressObject
decompressObject(obj) ==
    IF obj.t = "array"
    THEN [t |-> "array",
          es |-> [i \in 1..Len(Elements(obj.es)) |->
                    Entry(Elements(obj.es)[i].k, decompressObject(Elements(obj.es)[i].v))]]
    ELSE IF obj.t = "object" THEN Record(decompressEntries(Entries(obj.es), <<>>))
    ELSE obj

\* the loop of decompressObject over Object.entries(obj)
decompressEntries(es, decompressed) ==
    IF Len(es) = 0 THEN decompressed
    ELSE decompressEntries(Tail(es),
             Put(decompressed, Long(es[1].k),
                 IF es[1].v.t = "string" THEN Str(Long(es[1].v.s))
                 ELSE decompressObject(es[1].v)))

\* SCXCodec.flattenObject: parts with the paths and values of obj appended
flattenObject(obj, prefix, parts) ==
    IF obj.t = "array" THEN flattenEntries(Elements(obj.es), prefix, TRUE, parts)
    ELSE IF obj.t = "object" THEN flattenEntries(Entries(obj.es), prefix, FALSE, parts)
    ELSE parts \o <<prefix, ToText(obj)>>

\* the loops of flattenObject: `${prefix}[${idx}]` for an array,
\* prefix ? `${prefix}.${key}` : key for an object
flattenEntries(es, prefix, indexed, parts) ==
    IF Len(es) = 0 THEN parts
    ELSE flattenEntries(Tail(es), prefix, indexed,
             flattenObject(es[1].v,
                 IF indexed THEN prefix \o "[" \o es[1].k \o "]"
                 ELSE IF prefix # "" THEN prefix \o "." \o es[1].k
                 ELSE es[1].k,
                 parts))

\* SCXCodec.objectToSCXString
objectToSCXString(obj) == JoinWith(flattenObject(obj, "", <<>>), separator)

\* SCXCodec.encode of data that is not a string (lines 504-507)
encode(data) == objectToSCXString(compressObject(data))

\* Number(text), on the texts of the model: white space around an optional
\* minus sign and decimal digits
NumberOf(text) ==
    LET s == Trim(text)
        u == IF StartsWith(s, "-") THEN DropFirst(s, 1) ELSE s
    IN  IF s = "" THEN Num(0)
        ELSE IF u # "" /\ \A i \in 1..Len(u) : CharAt(u, i) \in Digits
        THEN Num(IF StartsWith(s, "-") THEN 0 - NatOf(u) ELSE NatOf(u))
        ELSE NaN

\* !isNaN(text)
IsNumeric(text) == NumberOf(text) # NaN

\* SCXCodec.parseValue: value is a text, or undefined when the string ends
\* with a path
parseValue(value) ==
    IF value = Undef THEN Undef
    ELSE IF value.s = "true" THEN Bool(TRUE)
    ELSE IF value.s = "false" THEN Bool(FALSE)
    ELSE IF value.s = "null" THEN Null
    ELSE IF IsNumeric(value.s) /\ value.s # ""
    THEN (IF Trim(value.s) = "" THEN NaN ELSE NumberOf(value.s))
    ELSE value

\* s.split(/\.|\[|\]/).filter(Boolean): the maximal runs of characters that
\* are none of . [ ]
RECURSIVE PathParts(_)
PathParts(s) ==
    LET a == SkipIn(s, 1, {".", "[", "]"})
        b == SkipOut(s, a, {".", "[", "]"})
    IN  IF a > Len(s) THEN <<>>
        ELSE <<SubSeq(s, a, b - 1)>> \o PathParts(DropFirst(s, b - 1))

\* what a property read or write on a value that is no object raises
TypeError == [t |-> "TypeError"]

\* current[part] = sub, unless the walk below it raised
Grafted(current, part, sub) ==
    IF sub = TypeError THEN TypeError ELSE [current EXCEPT !.es = Put(@, part, sub)]

\* the walk of SCXCodec.setPath from current along parts
RECURSIVE setAlong(_, _, _)
setAlong(current, parts, value) ==
    IF ~IsContainer(current) THEN TypeError
    ELSE IF Len(parts) = 1 THEN [current EXCEPT !.es = Put(@, parts[1], parseValue(value))]
    ELSE Grafted(current, parts[1],
             setAlong(IF Has(current.es, parts[1]) THEN At(current.es, parts[1])
                      ELSE [t |-> IF IsNumeric(parts[1]) THEN "array" ELSE "object",
                            es |-> <<>>],
                      Tail(parts), value))

\* SCXCodec.setPath (a path without parts has the last part undefined)
setPath(obj, path, value) ==
    setAlong(obj, IF PathParts(path) = <<>> THEN <<"undefined">> ELSE PathParts(path), value)

\* the loop of scxStringToObject from parts[i]
RECURSIVE scxParts(_, _, _)
scxParts(parts, i, obj) ==
    IF i > Len(parts) \/ obj = TypeError THEN obj
    ELSE scxParts(parts, i + 2,
             IF parts[i] = "" THEN obj
             ELSE setPath(obj, parts[i],
                          IF i + 1 <= Len(parts) THEN Str(parts[i + 1]) ELSE Undef))

\* SCXCodec.scxStringToObject
scxStringToObject(scxString) == scxParts(SplitOn(scxString, separator), 1, Record(<<>>))

\* scxString.includes(this.separator)
HasSeparator(scxString) == \E i \in 1..Len(scxString) : CharAt(scxString, i) = separator

\* SCXCodec.decode
decode(scxString) ==
    IF ~HasSeparator(scxString) THEN Str(scxString)
    ELSE IF scxStringToObject(scxString) = TypeError THEN TypeError
    ELSE decompressObject(scxStringToObject(scxString))

(***************************************************************************)
(* XJSONParser.normalize (src/lib/xjson/parser.js), on the trees of the    *)
(* codec's representation.                                                 *)
(***************************************************************************)
\* constructor: this.prefix
prefix == "⟁"

\* key.startsWith(this.prefix) ? key.slice(1) : key
cleanKey(key) == IF StartsWith(key, prefix) THEN DropFirst(key, 1) ELSE key

RECURSIVE normalize(_)
RECURSIVE normalizeEntries(_, _)

\* XJSONParser.normalize
normalize(obj) ==
    IF obj.t = "array"
    THEN [t |-> "array",
          es |-> [i \in 1..Len(Elements(obj.es)) |->
                    Entry(Elements(obj.es)[i].k, normalize(Elements(obj.es)[i].v))]]
    ELSE IF obj.t = "object" THEN Record(normalizeEntries(Entries(obj.es), <<>>))
    ELSE obj

\* the loop of normalize over Object.entries(obj)
normalizeEntries(es, normalized) ==
    IF Len(es) = 0 THEN normalized
    ELSE normalizeEntries(Tail(es),
             Put(normalized, cleanKey(es[1].k), normalize(es[1].v)))

(***************************************************************************)
(* HiveOrchestrator.  Definitions and configurations are JavaScript        *)
(* objects, as JSON.parse of a request body gives them.  A hive is the     *)
(* record h of the orchestrator's fields that createShard touches:         *)
(*   h.shards    this.shards, shard id -> shard instance                   *)
(*   h.registry  this.registry, shard id -> {id, port, endpoints}          *)
(*   h.vms       the engines made so far; an instance names its own by     *)
(*               its index (0: it has none)                                *)
(*   h.uuids     how many randomUUID() values were drawn                   *)
(***************************************************************************)
\* the reserved prefix character of XJSON keys
Prefix == "⟁"

\* obj[key] of a value that is not null or undefined
Prop(obj, key) == IF obj.t = "object" THEN MapGet(obj.f, key) ELSE Undef

\* obj.key || obj['⟁key']
Field(obj, key) == OrElse(Prop(obj, key), Prop(obj, Prefix \o key))

\* randomUUID(): the n-th value drawn; no two draws are equal
randomUUID(n) == Str("uuid-" \o NatText(n))

\* `${method}:${path}`
HandlerKey(method, path) == ToText(method) \o ":" \o ToText(path)

\* a compile loop that keeps the first binding of a key, to be told apart
\* from the one of the code by the property of C4
RECURSIVE CompileHandlers_FirstWins(_, _)
CompileHandlers_FirstWins(rs, handlers) ==
    IF Len(rs) = 0 THEN handlers
    ELSE LET key == HandlerKey(OrElse(Field(rs[1], "method"), Str("GET")),
                               Field(rs[1], "path"))
         IN  CompileHandlers_FirstWins(Tail(rs),
                 IF key \in DOMAIN handlers THEN handlers
                 ELSE MapSet(handlers, key, Field(rs[1], "handler")))

\* the loop that compiles the handlers (hive-orchestrator.js:104-110) over
\* the routes rs, a sequence of values, none null or undefined
RECURSIVE CompileHandlers(_, _)
CompileHandlers(rs, handlers) ==
    IF Len(rs) = 0 THEN handlers
    ELSE LET route == rs[1]
             path == Field(route, "path")
             method == OrElse(Field(route, "method"), Str("GET"))
             handler == Field(route, "handler")
         IN  CompileHandlers(Tail(rs), MapSet(handlers, HandlerKey(method, path), handler))

\* what `for (const route of api)` iterates: the elements of an array, the
\* characters of a text
Routes(api) ==
    IF api.t = "array" THEN api.a
    ELSE [i \in 1..Len(api.s) |-> Str(CharAt(api.s, i))]

\* the endpoints of a registry entry (hive-orchestrator.js:117-120)
Endpoints(api) ==
    [i \in 1..Len(api.a) |->
        [method |-> Field(api.a[i], "method"), path |-> Field(api.a[i], "path")]]

CreateOk(h, id) == [h |-> h, st |-> "ok", err |-> "", id |-> id]
CreateThrow(h) == [h |-> h, st |-> "throw", err |-> "TypeError", id |-> Undef]

\* HiveOrchestrator.createShard from the shard it parsed on
\* (hive-orchestrator.js:86-125).  The fields state and created of an
\* instance are never read and are left out, and so is the engine of an
\* instance that is dropped before it is stored.
registerShard(h, shard) ==
    LET drawn == ~Truthy(Field(shard, "id"))
        shardId == IF drawn THEN randomUUID(h.uuids + 1) ELSE Field(shard, "id")
        port == OrElse(Field(shard, "port"), Num(3001))
        runtime == OrElse(Field(shard, "runtime"), Str("kuhul"))
        api == OrElse(Field(shard, "api"), Arr(<<>>))
        hasVM == runtime = Str("kuhul")
        h0 == [h EXCEPT !.uuids = IF drawn THEN @ + 1 ELSE @]
        h1 == [h0 EXCEPT !.vms = IF hasVM THEN Append(@, NewVM) ELSE @]
        iterable == api.t \in {"array", "string"}
        rs == Routes(api)
        shardInstance ==
            [id |-> shardId, port |-> port, runtime |-> runtime, api |-> api,
             view |-> OrElse(Field(shard, "view"), Null),
             handlers |-> CompileHandlers(rs, EmptyMap),
             vm |-> IF hasVM THEN Len(h1.vms) ELSE 0]
        h2 == [h1 EXCEPT !.shards = MapSet(@, shardId, shardInstance)]
        h3 == [h2 EXCEPT !.registry =
                  MapSet(@, shardId,
                         [id |-> shardId, port |-> port, endpoints |-> Endpoints(api)])]
    IN  IF shard.t \in {"null", "undefined"} THEN CreateThrow(h)
        ELSE IF ~iterable THEN CreateThrow(h0)
        ELSE IF \E i \in 1..Len(rs) : rs[i].t \in {"null", "undefined"}
        THEN CreateThrow(h0)
        ELSE IF api.t # "array" THEN CreateThrow(h2)
        ELSE CreateOk(h3, shardId)

\* a tree of the codec's representation as a JavaScript value: reading a
\* hole of an array gives undefined, and no reader of the model looks at the
\* named properties of an array
RECURSIVE Plain(_)
Plain(v) ==
    IF v.t = "object"
    THEN Obj([k \in {v.es[i].k : i \in 1..Len(v.es)} |-> Plain(At(v.es, k))])
    ELSE IF v.t = "array"
    THEN Arr([i \in 1..(IF Len(Elements(v.es)) = 0 THEN 0
                        ELSE NatOf(Elements(v.es)[Len(Elements(v.es))].k) + 1) |->
                IF Has(v.es, NatText(i - 1)) THEN Plain(At(v.es, NatText(i - 1)))
                ELSE Undef])
    ELSE v

\* a JavaScript value as a tree of the codec's representation.  An object
\* of the model keeps no order of its keys: the texts the model parses hold
\* no two keys of one object that differ by the prefix character only, so
\* that no operation on the tree depends on the order chosen here
RECURSIVE Ordered(_)
RECURSIVE OrderedEntries(_, _)
Ordered(v) ==
    IF v.t = "object" THEN Record(OrderedEntries(v.f, DOMAIN v.f))
    ELSE IF v.t = "array" THEN List([i \in 1..Len(v.a) |-> Ordered(v.a[i])])
    ELSE v

OrderedEntries(f, keys) ==
    IF keys = {} THEN <<>>
    ELSE <<Entry(CHOOSE k \in keys : TRUE, Ordered(f[CHOOSE k \in keys : TRUE]))>>
         \o OrderedEntries(f, keys \ {CHOOSE k \in keys : TRUE})

\* a parsed value, or the error the parse threw
Parsed(v) == [ok |-> TRUE, v |-> v, err |-> ""]
ParseThrew(err) == [ok |-> FALSE, v |-> Undef, err |-> err]

\* XJSONParser.parse(input) (parser.js:15-26)
xjsonParse(input) ==
    IF input.t \in {"object", "array", "null"} THEN Parsed(Plain(normalize(Ordered(input))))
    ELSE IF input.t \in {"number", "boolean"} THEN Parsed(input)
    ELSE IF input.t = "string" /\ JSONParse(input.s).ok
    THEN Parsed(Plain(normalize(Ordered(JSONParse(input.s).v))))
    ELSE ParseThrew("Error")

\* the shard createShard reads from its argument (hive-orchestrator.js:78-84)
ShardOf(shardDef) ==
    IF shardDef.t = "string" /\ HasSeparator(shardDef.s)
    THEN (IF decode(shardDef.s) = TypeError THEN ParseThrew("TypeError")
          ELSE IF decode(shardDef.s).t = "string" THEN xjsonParse(decode(shardDef.s))
          ELSE Parsed(Plain(decode(shardDef.s))))
    ELSE IF shardDef.t = "string" THEN xjsonParse(shardDef)
    ELSE Parsed(shardDef)

\* HiveOrchestrator.createShard(shardDef); no await lies inside it, so it
\* runs without interruption
createShard(h, shardDef) ==
    IF ShardOf(shardDef).ok THEN registerShard(h, ShardOf(shardDef).v)
    ELSE [CreateThrow(h) EXCEPT !.err = ShardOf(shardDef).err]

\* the mesh setup of boot (hive-orchestrator.js:52-57): ports.forEach over
\* the ports from index idx on
RECURSIVE AssignPorts(_, _, _, _)
AssignPorts(ports, shardList, idx, assigned) ==
    IF idx > Len(ports) THEN assigned
    ELSE LET def == IF idx <= Len(shardList) THEN shardList[idx] ELSE Undef
         IN  AssignPorts(ports, shardList, idx + 1,
                         IF Truthy(def)
                         THEN MapSet(assigned, Field(def, "id"), ports[idx])
                         ELSE assigned)

\* hiveConfig.shards || hiveConfig['⟁shards'] || [], as a sequence
ConfigShards(hiveConfig) == OrElse(Field(hiveConfig, "shards"), Arr(<<>>)).a

\* the mesh descriptor after the mesh setup of boot (hive-orchestrator.js:47-58)
SetupMesh(m, hiveConfig) ==
    LET meshConfig == Field(hiveConfig, "mesh")
        ports == OrElse(Field(meshConfig, "ports"), Arr(<<>>)).a
    IN  IF Truthy(meshConfig)
        THEN [protocol |-> OrElse(Field(meshConfig, "protocol"), Str("virtual-rest")),
              ports |-> AssignPorts(ports, ConfigShards(hiveConfig), 1, m.ports)]
        ELSE m

(***************************************************************************)
(* The inputs of the model.                                                *)
(***************************************************************************)
Route(method, path, handler) ==
    Obj([method |-> Str(method), path |-> Str(path), handler |-> Str(handler)])

\* the shard of end-to-end scenario 1, its route writing a literal with two
\* spaces in it, with a second route that writes the literal of the scenario
DefHello ==
    Obj([id |-> Str("users"), port |-> Num(3001),
         api |-> Arr(<<Route("GET", "/list", "[Wo \"a  b\"]"),
                       Route("GET", "/w", "[Wo \"hello\"]")>>)])

\* a shard that declares GET:/list twice (the second route leaves the
\* method out) and a route that halts between two writes
DefDup ==
    Obj([id |-> Str("users"), port |-> Num(3002),
         api |-> Arr(<<Route("GET", "/list", "[Wo 1]"),
                       Obj([path |-> Str("/list"), handler |-> Str("[Yax data]")]),
                       Route("POST", "/list", "[Wo 1]\n[Xul]\n[Wo 2]")>>)])

\* a shard with no port: an unknown opcode before a halt (end-to-end
\* scenario 4), and an opcode named like a property every object inherits
DefOrders ==
    Obj([id |-> Str("orders"),
         api |-> Arr(<<Route("GET", "/list", "[Zzz foo]\n[Xul]"),
                       Route("POST", "/list", "[valueOf x]\n[Xul]")>>)])

\* a shard of another runtime kind, which gets no engine, and no id
DefStatic ==
    Obj([runtime |-> Str("static"), port |-> Num(3001),
         api |-> Arr(<<Route("GET", "/list", "index")>>)])

\* a definition whose api is a text, not a list
DefTextApi == Obj([id |-> Str("users"), port |-> Num(4000), api |-> Str("ab")])

ShardDefs == {DefHello, DefDup, DefOrders, DefStatic, DefTextApi}

Configs ==
    {Obj([hive |-> Str("main"), shards |-> Arr(<<DefHello, DefOrders>>),
          mesh |-> Obj([ports |-> Arr(<<Num(8001), Num(8002), Num(8003)>>)])]),
     Obj([shards |-> Arr(<<DefStatic, DefDup>>),
          mesh |-> Obj([protocol |-> Str("ws"), ports |-> Arr(<<Num(9001)>>)])]),
     Obj([hive |-> Str("empty")])}

\* the requests: <<shardId, method, path, data>>
Request(shardId, method, path, data) == <<Str(shardId), Str(method), Str(path), data>>

Requests ==
    {Request("users", "GET", "/list", Null),
     Request("users", "POST", "/list", Null),
     Request("users", "GET", "/w", Null),
     Request("orders", "GET", "/list", Null),
     Request("orders", "POST", "/list", Null),
     Request("uuid-2", "GET", "/list", Null)}

(***************************************************************************)
(* The state.                                                              *)
(***************************************************************************)
VARIABLES
    id,         \* this.id
    shards,     \* this.shards
    registry,   \* this.registry
    mesh,       \* this.mesh: [protocol, ports]
    booted,     \* this.booted
    vms,        \* the engines made so far (see createShard)
    uuids,      \* the randomUUID() values drawn so far
    boots,      \* the boot calls: [config, idx, st]
    calls,      \* the routeToShard calls
    creates,    \* the createShard calls made from outside boot
    job         \* a call of a function on its own: its input and its result

vars == <<id, shards, registry, mesh, booted, vms, uuids, boots, calls, creates, job>>

\* no function is called on its own
NoJob == [kind |-> "none"]

Hive == [shards |-> shards, registry |-> registry, vms |-> vms, uuids |-> uuids]

\* the state after new HiveOrchestrator() (hive-orchestrator.js:12-23)
Constructed ==
    /\ id = randomUUID(1)
    /\ shards = EmptyMap
    /\ registry = EmptyMap
    /\ mesh = [protocol |-> Str("virtual-rest"), ports |-> EmptyMap]
    /\ booted = FALSE
    /\ vms = <<>>
    /\ uuids = 1
    /\ boots = <<>>
    /\ calls = <<>>
    /\ creates = 0

Init == Constructed /\ job = NoJob

SetHive(r) ==
    /\ shards' = r.h.shards
    /\ registry' = r.h.registry
    /\ vms' = r.h.vms
    /\ uuids' = r.h.uuids

\* createShard(def) is called from outside boot
CreateCalled(def) ==
    /\ creates' = creates + 1
    /\ SetHive(createShard(Hive, def))
    /\ UNCHANGED <<id, mesh, booted, boots, calls, job>>

\* POST /api/hive/shards (src/server/index.js:87-91): createShard(def)
CreateShard(def) ==
    /\ creates + Len(boots) < MaxSetups
    /\ CreateCalled(def)

\* boot after its createShard call number idx gave r
AfterCreate(r, idx) ==
    [h |-> r.h, mesh |-> mesh, booted |-> booted, idx |-> idx + 1,
     st |-> IF r.st = "throw" THEN "throw" ELSE "await"]

\* a boot that forgets the shards registered before it, to be told apart
\* from the one of the code by the property of C28
BootAdvance_Reset(h, hiveConfig, idx) ==
    IF idx <= Len(ConfigShards(hiveConfig))
    THEN AfterCreate(createShard(IF idx = 1
                                 THEN [h EXCEPT !.shards = EmptyMap, !.registry = EmptyMap]
                                 ELSE h,
                                 ConfigShards(hiveConfig)[idx]), idx)
    ELSE [h |-> h, mesh |-> SetupMesh(mesh, hiveConfig), booted |-> TRUE,
          idx |-> idx, st |-> "done"]

\* boot from its idx-th shard definition on, up to its next await
\* (hive-orchestrator.js:42-60): [h, mesh, booted, idx, st]
BootAdvance(h, hiveConfig, idx) ==
    IF idx <= Len(ConfigShards(hiveConfig))
    THEN AfterCreate(createShard(h, ConfigShards(hiveConfig)[idx]), idx)
    ELSE [h |-> h, mesh |-> SetupMesh(mesh, hiveConfig), booted |-> TRUE,
          idx |-> idx, st |-> "done"]

\* the orchestrator's fields as the run r of boot leaves them
BootEffect(r) ==
    /\ shards' = r.h.shards
    /\ registry' = r.h.registry
    /\ vms' = r.h.vms
    /\ uuids' = r.h.uuids
    /\ mesh' = r.mesh
    /\ booted' = r.booted

BootStarted(config, r) ==
    /\ BootEffect(r)
    /\ boots' = Append(boots, [config |-> config, idx |-> r.idx, st |-> r.st])

\* the configuration boot reads from its argument (hive-orchestrator.js:32-37);
\* reading a property of null throws
HiveConfig(config) ==
    IF config.t = "string" /\ xjsonParse(config).ok /\ xjsonParse(config).v.t = "null"
    THEN ParseThrew("TypeError")
    ELSE IF config.t = "string" THEN xjsonParse(config)
    ELSE Parsed(config)

\* boot(config) is called and runs to its first await
BootCalled(config) ==
    /\ IF HiveConfig(config).ok
       THEN /\ id' = OrElse(Field(HiveConfig(config).v, "hive"), id)
            /\ BootStarted(config, BootAdvance(Hive, HiveConfig(config).v, 1))
       ELSE /\ boots' = Append(boots, [config |-> config, idx |-> 0, st |-> "throw"])
            /\ UNCHANGED <<id, shards, registry, vms, uuids, mesh, booted>>
    /\ UNCHANGED <<calls, creates, job>>

\* POST /api/hive/boot (src/server/index.js:94-99): boot(config)
BootStart(config) ==
    /\ creates + Len(boots) < MaxSetups
    /\ BootCalled(config)

BootStepped(b, r) ==
    /\ BootEffect(r)
    /\ boots' = [boots EXCEPT ![b].idx = r.idx, ![b].st = r.st]

\* a boot suspended at `await this.createShard(shardDef)` goes on
BootStep(b) ==
    /\ boots[b].st = "await"
    /\ BootStepped(b, BootAdvance(Hive, HiveConfig(boots[b].config).v, boots[b].idx))
    /\ UNCHANGED <<id, calls, creates, job>>

(***************************************************************************)
(* routeToShard.  A call is the record                                     *)
(*   shardId, method, path, data   its arguments                           *)
(*   handler, vm, context          the handler and the engine it resolved, *)
(*                                 and the context it gave to execute      *)
(*   frames, st, value, err        where it stands: st is "await", "done"  *)
(*                                 (it returned value) or "throw" (its     *)
(*                                 promise rejected with err)              *)
(* and, kept for the properties only:                                      *)
(*   start   the engine as the call found it, end the engine as it left it *)
(*   solo    no other call of the same engine ran while this one did       *)
(***************************************************************************)
ErrorOf(name, message) == [name |-> name, message |-> message]
NoError == ErrorOf("", "")

\* the context routeToShard passes to execute (hive-orchestrator.js:165)
CallContext(shard, data, method, path) ==
    [shard |-> ShardRef(shard.id, shard.port, shard.runtime, shard.vm),
     data |-> data, method |-> method, path |-> path]

\* the acknowledgement of a shard with no engine (hive-orchestrator.js:169-172)
MockResponse(handler, shardId) ==
    Obj([status |-> Num(200),
         data |-> Obj([message |-> Str("Handler " \o ToText(handler) \o " executed"),
                       shard |-> shardId])])

\* a call record with no handler run
NewCall(shardId, method, path, data) ==
    [shardId |-> shardId, method |-> method, path |-> path, data |-> data,
     handler |-> Undef, vm |-> 0, context |-> EmptyMap, frames |-> <<>>,
     st |-> "throw",
     value |-> Undef, err |-> NoError, start |-> NewVM, end |-> NewVM,
     solo |-> TRUE]

\* the call record after the run r of its engine
WithRun(call, r) ==
    [call EXCEPT !.frames = r.frames, !.st = r.st, !.value = r.value,
                 !.err = IF r.st = "throw" THEN ErrorOf(r.err, "") ELSE NoError,
                 !.end = r.vm]

\* routeToShard once shard and handler are resolved (hive-orchestrator.js:163-172)
RunHandler(call, shard, handler) ==
    IF shard.vm # 0
    THEN WithRun([call EXCEPT !.handler = handler, !.vm = shard.vm,
                              !.context = CallContext(shard, call.data, call.method,
                                                      call.path),
                              !.start = vms[shard.vm],
                              !.solo = \A i \in 1..Len(calls) :
                                          ~(calls[i].st = "await" /\ calls[i].vm = shard.vm)],
                 EnterExec(vms[shard.vm], <<>>, handler,
                           CallContext(shard, call.data, call.method, call.path)))
    ELSE [call EXCEPT !.handler = handler, !.st = "done",
                      !.value = MockResponse(handler, call.shardId)]

\* a routeToShard with no check of the handler binding, to be told apart
\* from the one of the code by the property of C3
routeToShard_NoHandlerCheck(shardId, method, path, data) ==
    IF shardId \notin DOMAIN shards
    THEN [NewCall(shardId, method, path, data) EXCEPT
            !.err = ErrorOf("Error", "Shard not found: " \o ToText(shardId))]
    ELSE RunHandler(NewCall(shardId, method, path, data), shards[shardId],
                    MapGet(shards[shardId].handlers, HandlerKey(method, path)))

\* routeToShard(shardId, method, path, data) from its call to its first
\* await, return or throw, as a call record; the engine it leaves is in end
routeToShard(shardId, method, path, data) ==
    IF shardId \notin DOMAIN shards
    THEN [NewCall(shardId, method, path, data) EXCEPT
            !.err = ErrorOf("Error", "Shard not found: " \o ToText(shardId))]
    ELSE IF ~Truthy(MapGet(shards[shardId].handlers, HandlerKey(method, path)))
    THEN [NewCall(shardId, method, path, data) EXCEPT
            !.err = ErrorOf("Error", "No handler for " \o HandlerKey(method, path)
                                       \o " in shard " \o ToText(shardId))]
    ELSE RunHandler(NewCall(shardId, method, path, data), shards[shardId],
                    MapGet(shards[shardId].handlers, HandlerKey(method, path)))

\* a start of a call that leaves its engine's state in every engine, to be
\* told apart from the one of the code by the property of C12
RouteStarted_AllEngines(c) ==
    /\ calls' = Append(calls, c)
    /\ vms' = IF c.vm # 0 THEN [i \in 1..Len(vms) |-> c.end] ELSE vms

RouteStarted(c) ==
    /\ calls' = Append([i \in 1..Len(calls) |->
                          IF c.vm # 0 /\ calls[i].st = "await" /\ calls[i].vm = c.vm
                          THEN [calls[i] EXCEPT !.solo = FALSE] ELSE calls[i]], c)
    /\ vms' = IF c.vm # 0 THEN [vms EXCEPT ![c.vm] = c.end] ELSE vms

\* a request reaches routeToShard (virtual-mesh.js:40, 65)
RouteStart(shardId, method, path, data) ==
    /\ Len(calls) < MaxCalls
    /\ RouteStarted(routeToShard(shardId, method, path, data))
    /\ UNCHANGED <<id, shards, registry, mesh, booted, uuids, boots, creates, job>>

RouteStepped(c, r) ==
    /\ calls' = [calls EXCEPT ![c] = WithRun(@, r)]
    /\ vms' = [vms EXCEPT ![calls[c].vm] = r.vm]

\* a call suspended at an await of its engine goes on to its next await,
\* its return or its throw
RouteStep(c) ==
    /\ calls[c].st = "await"
    /\ RouteStepped(c, Resume(vms[calls[c].vm], calls[c].frames))
    /\ UNCHANGED <<id, shards, registry, mesh, booted, uuids, boots, creates, job>>

Next ==
    \/ \E def \in ShardDefs : CreateShard(def)
    \/ \E config \in Configs : BootStart(config)
    \/ \E b \in 1..Len(boots) : BootStep(b)
    \/ \E q \in Requests : RouteStart(q[1], q[2], q[3], q[4])
    \/ \E c \in 1..Len(calls) : RouteStep(c)

Spec == Init /\ [][Next]_vars

(***************************************************************************)
(* executeGlyph: one program run on an engine of its own.  The job is      *)
(*   code, context          the arguments of executeGlyph                  *)
(*   vm, frames, st, value, err   the run, as for a call; st is "new"      *)
(*                                before executeGlyph is called            *)
(***************************************************************************)
\* lines of a program
MaxLines == 2

Lines ==
    {"[Wo {bad]", "[Wo [1,2]]", "[Wo 2]", "[Wo \"x\"]", "[Yax data]", "[Ch'en v]",
     "[Zzz foo]", "[Xul]"}

\* the programs of at most n lines
Programs(n) ==
    {JoinWith(ls, "\n") : ls \in UNION {[1..k -> Lines] : k \in 0..n}}

\* the hive, as a value of the context
HiveRef == [t |-> "hive"]

GlyphContexts == {EmptyMap, [data |-> Num(7)]}

GlyphJob(code, context) ==
    [kind |-> "execute", code |-> code, context |-> context, vm |-> NewVM,
     frames |-> <<>>, st |-> "new", value |-> Undef, err |-> ""]

\* the job after the run r of its engine
GlyphRun(j, r) ==
    [j EXCEPT !.vm = r.vm, !.frames = r.frames, !.st = r.st, !.value = r.value,
              !.err = r.err]

InitEngine ==
    /\ Constructed
    /\ job \in {GlyphJob(Str(p), c) : p \in Programs(MaxLines), c \in GlyphContexts}

\* HiveOrchestrator.executeGlyph(code, context), to the first await
ExecuteGlyph ==
    /\ job.kind = "execute" /\ job.st = "new"
    /\ job' = GlyphRun(job, EnterExec(NewVM, <<>>, job.code,
                                      MapSet(job.context, "hive", HiveRef)))
    /\ UNCHANGED <<id, shards, registry, mesh, booted, vms, uuids, boots, calls, creates>>

\* the run goes on from an await to the next, to its return or to its throw
ExecuteGlyphStep ==
    /\ job.kind = "execute" /\ job.st = "await"
    /\ job' = GlyphRun(job, Resume(job.vm, job.frames))
    /\ UNCHANGED <<id, shards, registry, mesh, booted, vms, uuids, boots, calls, creates>>

NextEngine == ExecuteGlyph \/ ExecuteGlyphStep

SpecEngine == InitEngine /\ [][NextEngine]_vars

(***************************************************************************)
(* boot and createShard called again on a hive that has shards.            *)
(***************************************************************************)
\* boot and createShard calls started in one behaviour
MaxBoots == 2

\* two shards; the shard users declared anew with other routes; a shard of
\* a generated id, then a definition that throws once its shard is in the map
RebootConfigs ==
    {Obj([hive |-> Str("main"), shards |-> Arr(<<DefHello, DefOrders>>),
          mesh |-> Obj([ports |-> Arr(<<Num(8001), Num(8002)>>)])]),
     Obj([shards |-> Arr(<<DefDup>>)]),
     Obj([shards |-> Arr(<<DefStatic, DefTextApi>>)])}

RebootDefs == {DefHello, DefDup, DefTextApi}

NextReboot ==
    \/ \E def \in RebootDefs : creates + Len(boots) < MaxBoots /\ CreateCalled(def)
    \/ \E config \in RebootConfigs : creates + Len(boots) < MaxBoots /\ BootCalled(config)
    \/ \E b \in 1..Len(boots) : BootStep(b)

SpecReboot == Init /\ [][NextReboot]_vars

(***************************************************************************)
(* Routes whose handler is a name, not a program.                          *)
(***************************************************************************)
\* names of handlers: two that are no operation of gSek and one that is
HandlerNames == {"index", "listUsers", "process"}

\* a shard whose first route is bound to the name and whose second route is
\* bound to the program of one call instruction that names it
DefNamed(shardId, name) ==
    Obj([id |-> Str(shardId),
         api |-> Arr(<<Route("GET", "/name", name),
                       Route("GET", "/call", "[Sek " \o name \o "]")>>)])

NamedDefs == {DefNamed(i, n) : i \in {"pages", "users"}, n \in HandlerNames}

NamedRequests ==
    {Request(i, "GET", p, Null) : i \in {"pages", "users"}, p \in {"/name", "/call"}}

NextNamed ==
    \/ \E def \in NamedDefs : CreateShard(def)
    \/ \E q \in NamedRequests : RouteStart(q[1], q[2], q[3], q[4])
    \/ \E c \in 1..Len(calls) : RouteStep(c)

SpecNamed == Init /\ [][NextNamed]_vars

(***************************************************************************)
(* The engine on programs that bind, iterate and call.  Every line of      *)
(* GlyphLines is parsed into one instruction, so the n-th instruction of a *)
(* program is its n-th line.                                               *)
(***************************************************************************)
\* lines of a program
MaxGlyphs == 3

GlyphLines ==
    {"[Pop f]", "[Wo [1,2]]", "[Wo 2]", "[Ch'en v]", "[Ch'en]", "[Yax v]",
     "[Sek forEach f]", "[Sek forEach]", "[Sek f]", "[Xul]"}

\* the programs of at most n lines
GlyphPrograms(n) ==
    {JoinWith(ls, "\n") : ls \in UNION {[1..k -> GlyphLines] : k \in 0..n}}

InitGlyphs ==
    /\ Constructed
    /\ job \in {GlyphJob(Str(p), EmptyMap) : p \in GlyphPrograms(MaxGlyphs)}

SpecGlyphs == InitGlyphs /\ [][NextEngine]_vars

\* the run of the job has a step to take: ExecuteGlyph when it is new,
\* ExecuteGlyphStep when it is suspended; this is ENABLED <<NextEngine>>_vars
Pending == job.kind = "execute" /\ job.st \in {"new", "await"}

\* the scheduler of JavaScript resumes every function whose awaited promise
\* has settled, and every await of the engine settles: weak fairness of
\* NextEngine, WF_vars(NextEngine), with its ENABLED written as Pending
FairGlyphs == SpecGlyphs /\ ([]<>(~Pending) \/ []<><<NextEngine>>_vars)

(***************************************************************************)
(* VirtualMeshRouter.  The job is the router's traffic: reqs, the requests *)
(* and messages received, each the record                                  *)
(*   via                 "http" or "ws"                                    *)
(*   kind                "call", or for a request that reaches no call     *)
(*                       "short" (path check failed), "subscribe", "bad"   *)
(*   shardId, method, path, body, requestId   what it carried             *)
(*   st                  "body" (awaiting readBody), "call" (awaiting      *)
(*                       routeToShard) or "closed" (handler returned)      *)
(*   call                its routeToShard call in calls (0: none)          *)
(*   sent                what the router sent for it, in order             *)
(***************************************************************************)
MeshUsers ==
    Obj([id |-> Str("users"),
         api |-> Arr(<<Route("GET", "/hello", "[Wo \"hello\"]"),
                       Route("GET", "/data", "[Yax data]"),
                       Route("POST", "/data", "[Yax data]"),
                       Route("GET", "/bad", "[Wo {bad]")>>)])

MeshConfig == Obj([hive |-> Str("mesh"), shards |-> Arr(<<MeshUsers>>)])

\* open: a streaming connection is open; greeting: what was sent on it when
\* it was opened
MeshJob == [kind |-> "mesh", reqs |-> <<>>, open |-> FALSE, greeting |-> <<>>]

InitMesh == Constructed /\ job = MeshJob

\* respondJSON(res, status, data): what is sent, or ok FALSE where it throws:
\* Buffer.byteLength of the undefined that JSON.stringify(undefined) gives,
\* and writeHead of a status (a number, in the model) outside 100..999
Sent(status, body) == [ok |-> TRUE, status |-> status, body |-> body]
SendThrows == [ok |-> FALSE, status |-> Undef, body |-> Undef]

respondJSON(status, data) ==
    IF data.t = "undefined" THEN SendThrows
    ELSE IF ~(status.t = "number" /\ status.n >= 100 /\ status.n <= 999) THEN SendThrows
    ELSE Sent(status, data)

\* the catch of handleRequest (virtual-mesh.js:43-46)
HttpFailure(message) == respondJSON(Num(500), Obj([error |-> Str(message)]))

\* virtual-mesh.js:42 for the value routeToShard gave: reading a property
\* of null or undefined throws
HttpResult(result) ==
    IF result.t \in {"undefined", "null"} THEN SendThrows
    ELSE respondJSON(OrElse(GetProp(result, Str("status")), Num(200)),
                     OrElse(GetProp(result, Str("data")), result))

\* a handleRequest with no catch, to be told apart from the one of the code
\* by the property of C13
HttpSettled_NoCatch(call) ==
    IF call.st = "done" /\ HttpResult(call.value).ok THEN <<HttpResult(call.value)>>
    ELSE <<>>

\* what handleRequest sends once routeToShard has settled as call
HttpSettled(call) ==
    IF call.st = "done" /\ HttpResult(call.value).ok THEN <<HttpResult(call.value)>>
    ELSE <<HttpFailure(call.err.message)>>

\* JSON.stringify of a message: a member that is undefined is left out
Stringified(fields) ==
    Obj([k \in {x \in DOMAIN fields : fields[x].t # "undefined"} |-> fields[k]])

\* what the message handler sends once routeToShard has settled as call
\* (virtual-mesh.js:67-71, 79-84)
WsSettled(req, call) ==
    IF call.st = "done"
    THEN <<Stringified([type |-> Str("mesh:response"), requestId |-> req.requestId,
                        result |-> call.value])>>
    ELSE <<Stringified([type |-> Str("error"), error |-> Str(call.err.message)])>>

MeshReq(via, kind, shardId, method, path, body, requestId, st, sent) ==
    [via |-> via, kind |-> kind, shardId |-> shardId, method |-> method, path |-> path,
     body |-> body, requestId |-> requestId, st |-> st, call |-> 0, sent |-> sent]

\* the request once its routeToShard call c has run to its first await,
\* return or throw
Routed(req, c) ==
    [req EXCEPT !.call = Len(calls) + 1,
                !.st = IF c.st = "await" THEN "call" ELSE "closed",
                !.sent = IF c.st = "await" THEN <<>>
                         ELSE IF req.via = "http" THEN HttpSettled(c)
                         ELSE WsSettled(req, c)]

\* the handler calls routeToShard for req (virtual-mesh.js:40, 65); reqs is
\* the traffic with req in it
Dispatch(reqs, r, c) ==
    /\ RouteStarted(c)
    /\ job' = [job EXCEPT !.reqs = [reqs EXCEPT ![r] = Routed(@, c)]]

\* a request for /mesh/<shardId><endpoint>: <<shardId, method, endpoint,
\* body>>, endpoint "" for a path of fewer than three parts
HttpRequests ==
    {<<"users", "GET", "/hello", "">>,
     <<"users", "GET", "/data", "">>,
     <<"users", "POST", "/data", "{\"status\":201,\"data\":\"made\"}">>,
     <<"users", "POST", "/data", "{bad">>,
     <<"users", "GET", "/bad", "">>,
     <<"users", "PUT", "/hello", "">>,
     <<"ghost", "GET", "/hello", "">>,
     <<"users", "GET", "", "">>}

HttpReq(q, kind, st, sent) ==
    MeshReq("http", kind, Str(q[1]), Str(q[2]), Str(q[3]), q[4], Undef, st, sent)

\* VirtualMeshRouter.handleRequest(req, res, url) to its first await
HttpArrive(q) ==
    /\ job.kind = "mesh" /\ Len(job.reqs) < MaxCalls
    /\ IF q[3] = ""
       THEN /\ job' = [job EXCEPT !.reqs = Append(@,
                         HttpReq(q, "short", "closed",
                             <<respondJSON(Num(400),
                                   Obj([error |-> Str("Invalid mesh route")]))>>))]
            /\ UNCHANGED <<calls, vms>>
       ELSE IF q[2] \in {"POST", "PUT"}
       THEN /\ job' = [job EXCEPT !.reqs = Append(@, HttpReq(q, "call", "body", <<>>))]
            /\ UNCHANGED <<calls, vms>>
       ELSE Dispatch(Append(job.reqs, HttpReq(q, "call", "call", <<>>)),
                     Len(job.reqs) + 1,
                     routeToShard(Str(q[1]), Str(q[2]), Str(q[3]), Null))
    /\ UNCHANGED <<id, shards, registry, mesh, booted, uuids, boots, creates>>

\* the body of a POST or PUT has been read (virtual-mesh.js:34-37): it is
\* decoded and routeToShard is called
HttpBody(r) ==
    /\ job.kind = "mesh" /\ job.reqs[r].st = "body"
    /\ IF job.reqs[r].body = ""
       THEN Dispatch(job.reqs, r,
                     routeToShard(job.reqs[r].shardId, job.reqs[r].method,
                                  job.reqs[r].path, Null))
       ELSE IF JSONParse(job.reqs[r].body).ok
       THEN Dispatch(job.reqs, r,
                     routeToShard(job.reqs[r].shardId, job.reqs[r].method,
                                  job.reqs[r].path, JSONParse(job.reqs[r].body).v))
       ELSE /\ job' = [job EXCEPT !.reqs[r].st = "closed",
                                   !.reqs[r].sent = <<HttpFailure("Unexpected token")>>]
            /\ UNCHANGED <<calls, vms>>
    /\ UNCHANGED <<id, shards, registry, mesh, booted, uuids, boots, creates>>

\* the routeToShard call of a request goes on from its await; once it has
\* settled the handler answers
MeshStep(r) ==
    /\ job.kind = "mesh" /\ job.reqs[r].st = "call"
    /\ RouteStepped(job.reqs[r].call,
                    Resume(vms[calls[job.reqs[r].call].vm], calls[job.reqs[r].call].frames))
    /\ job' = IF calls'[job.reqs[r].call].st = "await" THEN job
              ELSE [job EXCEPT !.reqs[r].st = "closed",
                               !.reqs[r].sent =
                                   IF job.reqs[r].via = "http"
                                   THEN HttpSettled(calls'[job.reqs[r].call])
                                   ELSE WsSettled(job.reqs[r], calls'[job.reqs[r].call])]
    /\ UNCHANGED <<id, shards, registry, mesh, booted, uuids, boots, creates>>

NextHttp ==
    \/ BootStart(MeshConfig)
    \/ \E b \in 1..Len(boots) : BootStep(b)
    \/ \E q \in HttpRequests : HttpArrive(q)
    \/ \E r \in 1..Len(job.reqs) : HttpBody(r)
    \/ \E r \in 1..Len(job.reqs) : MeshStep(r)

SpecHttp == InitMesh /\ [][NextHttp]_vars

\* the messages a client sends on the streaming connection
WsMessages ==
    {"{\"type\":\"mesh:call\",\"shardId\":\"users\",\"method\":\"GET\",\"path\":\"/hello\",\"requestId\":\"r1\"}",
     "{\"type\":\"mesh:call\",\"shardId\":\"ghost\",\"method\":\"GET\",\"path\":\"/hello\",\"requestId\":\"r2\"}",
     "{\"type\":\"mesh:call\",\"shardId\":\"users\",\"method\":\"GET\",\"path\":\"/bad\",\"requestId\":\"r3\"}",
     "{\"type\":\"mesh:subscribe\",\"shardId\":\"users\"}",
     "{\"type\":\"ping\"}",
     "{bad"}

\* VirtualMeshRouter.handleWebSocket(ws, url): the connection is registered
\* and greeted with the hive's id and the keys of its shards (of their
\* insertion order the model keeps nothing: the set of them)
WsConnect ==
    /\ job.kind = "mesh" /\ ~job.open
    /\ job' = [job EXCEPT !.open = TRUE,
                          !.greeting = <<Stringified([type |-> Str("mesh:connected"),
                                                      hive |-> id,
                                                      shards |-> [t |-> "keys", of |-> DOMAIN shards]])>>]
    /\ UNCHANGED <<id, shards, registry, mesh, booted, vms, uuids, boots, calls, creates>>

WsReq(msg, kind, st, sent) ==
    MeshReq("ws", kind, GetProp(msg, Str("shardId")), GetProp(msg, Str("method")),
            GetProp(msg, Str("path")), GetProp(msg, Str("data")),
            GetProp(msg, Str("requestId")), st, sent)

\* the message handler for a message that was parsed as msg, an object
WsParsed(msg) ==
    IF GetProp(msg, Str("type")) = Str("mesh:call")
    THEN Dispatch(Append(job.reqs, WsReq(msg, "call", "call", <<>>)),
                  Len(job.reqs) + 1,
                  routeToShard(GetProp(msg, Str("shardId")), GetProp(msg, Str("method")),
                               GetProp(msg, Str("path")), GetProp(msg, Str("data"))))
    ELSE /\ job' = [job EXCEPT !.reqs = Append(@,
                      IF GetProp(msg, Str("type")) = Str("mesh:subscribe")
                      THEN WsReq(msg, "subscribe", "closed",
                               <<Stringified([type |-> Str("mesh:subscribed"),
                                              shardId |-> GetProp(msg, Str("shardId"))])>>)
                      ELSE WsReq(msg, "other", "closed", <<>>))]
         /\ UNCHANGED <<calls, vms>>

\* the 'message' handler of the connection (virtual-mesh.js:58-85), to its
\* first await
WsMessage(text) ==
    /\ job.kind = "mesh" /\ job.open /\ Len(job.reqs) < MaxCalls
    /\ IF JSONParse(text).ok /\ JSONParse(text).v.t = "object"
       THEN WsParsed(JSONParse(text).v)
       ELSE /\ job' = [job EXCEPT !.reqs = Append(@,
                         WsReq(Null, "bad", "closed",
                             <<Stringified([type |-> Str("error"),
                                            error |-> Str("Unexpected token")])>>))]
            /\ UNCHANGED <<calls, vms>>
    /\ UNCHANGED <<id, shards, registry, mesh, booted, uuids, boots, creates>>

NextWs ==
    \/ BootStart(MeshConfig)
    \/ \E b \in 1..Len(boots) : BootStep(b)
    \/ WsConnect
    \/ \E text \in WsMessages : WsMessage(text)
    \/ \E r \in 1..Len(job.reqs) : MeshStep(r)

SpecWs == InitMesh /\ [][NextWs]_vars

(***************************************************************************)
(* SCXCodec on its own: a tree is encoded, and the result decoded.         *)
(***************************************************************************)
\* the trees the codec is given
CodecKeys == {"shard", "port", "method", "@shard", "name"}
CodecLeaves == {Str("users"), Num(3001), Str("GET"), Str("3001"), Null}

\* the flat trees of n keys
RECURSIVE FlatEntries(_)
FlatEntries(n) ==
    IF n = 0 THEN {<<>>}
    ELSE {Append(es, Entry(k, v)) :
            es \in {x \in FlatEntries(n - 1) : Len(x) = n - 1},
            k \in CodecKeys, v \in CodecLeaves}
         \cup FlatEntries(n - 1)

DistinctKeys(es) == \A i, j \in 1..Len(es) : es[i].k = es[j].k => i = j

FlatTrees == {Record(es) : es \in {x \in FlatEntries(MaxKeys) : DistinctKeys(x)}}

\* the tree of the README (client.js:644-648)
ReadmeTree ==
    Record(<<Entry("shard", Str("users")), Entry("port", Num(3001)),
             Entry("method", Str("GET"))>>)

\* a shard definition that holds a list of routes
RoutesTree ==
    Record(<<Entry("shard", Str("users")),
             Entry("api", List(<<Record(<<Entry("path", Str("/list")),
                                          Entry("method", Str("GET")),
                                          Entry("handler", Str("[Wo 1]"))>>)>>))>>)

NestedTree ==
    Record(<<Entry("hive", Str("demo")),
             Entry("mesh", Record(<<Entry("protocol", Str("virtual-rest")),
                                    Entry("ports", List(<<Num(3001), Num(3002)>>))>>))>>)

Trees == FlatTrees \cup {ReadmeTree, RoutesTree, NestedTree}

CodecJob(tree) == [kind |-> "codec", tree |-> tree, st |-> "drawn"]

InitCodec == Constructed /\ job \in {CodecJob(tree) : tree \in Trees}

\* scx.encode(tree)
Encode ==
    /\ job.kind = "codec" /\ job.st = "drawn"
    /\ job' = [kind |-> "codec", tree |-> job.tree, st |-> "encoded",
               scx |-> encode(job.tree)]
    /\ UNCHANGED <<id, shards, registry, mesh, booted, vms, uuids, boots, calls, creates>>

\* scx.decode(scx.encode(tree))
Decode ==
    /\ job.kind = "codec" /\ job.st = "encoded"
    /\ job' = [kind |-> "codec", tree |-> job.tree, st |-> "decoded",
               scx |-> job.scx, back |-> decode(job.scx)]
    /\ UNCHANGED <<id, shards, registry, mesh, booted, vms, uuids, boots, calls, creates>>

NextCodec == Encode \/ Decode

SpecCodec == InitCodec /\ [][NextCodec]_vars

(***************************************************************************)
(* XJSONParser.normalize on its own: a tree is normalized, and the result  *)
(* normalized again.                                                       *)
(***************************************************************************)
\* the trees normalize is given: flat ones, and flat ones of one key inside
\* an object or an array
XKeys == {"a", "⟁a", "⟁⟁a", "b", "⟁b"}
XLeaves == {Num(1), Str("⟁v")}

RECURSIVE XEntries(_)
XEntries(n) ==
    IF n = 0 THEN {<<>>}
    ELSE {Append(es, Entry(k, v)) :
            es \in {x \in XEntries(n - 1) : Len(x) = n - 1},
            k \in XKeys, v \in XLeaves}
         \cup XEntries(n - 1)

XFlat == {Record(es) : es \in {x \in XEntries(MaxKeys) : DistinctKeys(x)}}

XTrees ==
    XFlat
    \cup {Record(<<Entry(k, tree)>>) : k \in XKeys, tree \in {x \in XFlat : Len(x.es) = 1}}
    \cup {List(<<tree, Num(1)>>) : tree \in {x \in XFlat : Len(x.es) = 1}}

InitNormalize == Constructed /\ job \in {[kind |-> "xjson", tree |-> tree, st |-> "drawn"] : tree \in XTrees}

\* xjson.normalize(tree)
Normalize ==
    /\ job.kind = "xjson" /\ job.st = "drawn"
    /\ job' = [kind |-> "xjson", tree |-> job.tree, st |-> "once",
               once |-> normalize(job.tree)]
    /\ UNCHANGED <<id, shards, registry, mesh, booted, vms, uuids, boots, calls, creates>>

\* xjson.normalize(xjson.normalize(tree))
NormalizeAgain ==
    /\ job.kind = "xjson" /\ job.st = "once"
    /\ job' = [kind |-> "xjson", tree |-> job.tree, st |-> "twice",
               once |-> job.once, twice |-> normalize(job.once)]
    /\ UNCHANGED <<id, shards, registry, mesh, booted, vms, uuids, boots, calls, creates>>

NextNormalize == Normalize \/ NormalizeAgain

SpecNormalize == InitNormalize /\ [][NextNormalize]_vars

(***************************************************************************)
(* boot and createShard on their own: the configurations hold every list   *)
(* of at most two definitions, objects and texts, with and without a port  *)
(* list.                                                                   *)
(***************************************************************************)
\* a definition in compact-encoded text form
ScxMail == Str(encode(Record(<<Entry("id", Str("mail")), Entry("port", Num(3005))>>)))

\* a definition in JSON text form
JsonOrders == Str("{\"id\":\"orders\",\"port\":3002}")

BootDefs == {DefHello, DefDup, DefStatic, ScxMail, JsonOrders}

BootShardLists ==
    {<<>>} \cup {<<d>> : d \in BootDefs} \cup {<<d, e>> : d \in BootDefs, e \in BootDefs}

\* the port lists of a configuration (none: the configuration has no mesh)
BootPorts == {<<>>, <<Num(8001)>>, <<Num(8001), Num(8002), Num(8003)>>}

BootConfig(defs, ports) ==
    IF Len(ports) = 0 THEN Obj([hive |-> Str("main"), shards |-> Arr(defs)])
    ELSE Obj([hive |-> Str("main"), shards |-> Arr(defs),
              mesh |-> Obj([ports |-> Arr(ports)])])

\* the configurations, two of them texts
BootConfigs ==
    {BootConfig(defs, ports) : defs \in BootShardLists, ports \in BootPorts}
    \cup {Str("{\"⟁hive\":\"text\",\"⟁shards\":[{\"⟁id\":\"a\"}],\"mesh\":{\"ports\":[7001]}}"),
          Str("{bad")}

NextBoot ==
    \/ \E def \in BootDefs : CreateShard(def)
    \/ \E config \in BootConfigs : BootStart(config)
    \/ \E b \in 1..Len(boots) : BootStep(b)

SpecBoot == Init /\ [][NextBoot]_vars

(***************************************************************************)
(* createShard of a definition and of its compact encoding, each on a hive *)
(* of its own.  The job holds the definition tree and what the two calls   *)
(* gave.                                                                   *)
(***************************************************************************)
RouteTree(path, method, handler) ==
    Record(<<Entry("path", Str(path)), Entry("method", Str(method)),
             Entry("handler", Str(handler))>>)

RouteTrees ==
    {RouteTree("/list", "GET", "[Wo 1]"), RouteTree("/w", "POST", "[Xul]"),
     Record(<<Entry("path", Str("/x")), Entry("handler", Str("index"))>>)}

RouteLists ==
    {<<>>} \cup {<<r>> : r \in RouteTrees} \cup {<<r, q>> : r \in RouteTrees, q \in RouteTrees}

\* the definition trees with an id, a port and a list of routes
DefTrees ==
    {Record(<<Entry("id", Str(i)), Entry("port", Num(p)), Entry("api", List(rs))>>) :
        i \in {"users", "mail"}, p \in {3001, 8080}, rs \in RouteLists}

\* the fields of a hive that createShard reads and writes, after
\* new HiveOrchestrator()
NewHive == [shards |-> EmptyMap, registry |-> EmptyMap, vms |-> <<>>, uuids |-> 1]

NotCalled == [st |-> "none"]

InitCreate ==
    /\ Constructed
    /\ job \in {[kind |-> "create", tree |-> d, direct |-> NotCalled, coded |-> NotCalled] :
                   d \in DefTrees}

\* hive.createShard(d)
CreateFromTree ==
    /\ job.kind = "create" /\ job.direct = NotCalled
    /\ job' = [job EXCEPT !.direct = createShard(NewHive, Plain(job.tree))]
    /\ UNCHANGED <<id, shards, registry, mesh, booted, vms, uuids, boots, calls, creates>>

\* hive.createShard(scx.encode(d))
CreateFromText ==
    /\ job.kind = "create" /\ job.coded = NotCalled
    /\ job' = [job EXCEPT !.coded = createShard(NewHive, Str(encode(job.tree)))]
    /\ UNCHANGED <<id, shards, registry, mesh, booted, vms, uuids, boots, calls, creates>>

NextCreate == CreateFromTree \/ CreateFromText

SpecCreate == InitCreate /\ [][NextCreate]_vars

(***************************************************************************)
(* The claims.                                                             *)
(***************************************************************************)
CallIds == 1..Len(calls)

\* the calls that ran a handler on an engine and returned
Done(c) == calls[c].st = "done" /\ calls[c].vm # 0

\* the instruction the outermost execute of call c dispatched last
Dispatched(c) == Len(calls[c].frames) >= 1 /\ calls[c].frames[1].pc > 1
LastInst(c) == calls[c].frames[1].insts[calls[c].frames[1].pc - 1]

\* C1: in every state the shard map and the registry hold the same ids, and
\* each registry entry has the port of the shard with its id.
C1_MeshConsistency ==
    /\ DOMAIN shards = DOMAIN registry
    /\ \A s \in DOMAIN shards : registry[s].port = shards[s].port

\* C2: a call that ran with no other call on its engine started with an empty
\* stack and an empty variable mapping, and returned what its handler and
\* its context give on a fresh engine.
C2_NothingLeftByEarlierCall ==
    \A c \in CallIds :
        Done(c) /\ calls[c].solo =>
            /\ calls[c].start.stack = <<>>
            /\ calls[c].start.variables = EmptyMap
            /\ calls[c].value = execute(NewVM, calls[c].handler, calls[c].context).value

\* the call started by this step
Started == calls'[Len(calls')]

\* the shard id of the call is not registered, or its METHOD:path key has no
\* binding on the shard
Unbound(call) ==
    \/ call.shardId \notin DOMAIN shards
    \/ HandlerKey(call.method, call.path) \notin DOMAIN shards[call.shardId].handlers

RouteKey(api, i) ==
    HandlerKey(OrElse(Field(api.a[i], "method"), Str("GET")), Field(api.a[i], "path"))

\* the handler of the last route of api declared with the key
LastDeclared(api, key) ==
    LET last == CHOOSE i \in 1..Len(api.a) :
                    /\ RouteKey(api, i) = key
                    /\ \A j \in (i + 1)..Len(api.a) : RouteKey(api, j) # key
    IN  Field(api.a[last], "handler")

\* C4: the handler lookup of a shard holds one binding per declared
\* METHOD:path key, that of the route declared last with the key, and a
\* call routed to the key runs that handler.
C4_LastDeclaredRouteWins ==
    /\ \A s \in DOMAIN shards :
          shards[s].api.t = "array" =>
              /\ DOMAIN shards[s].handlers =
                    {RouteKey(shards[s].api, i) : i \in 1..Len(shards[s].api.a)}
              /\ \A k \in DOMAIN shards[s].handlers :
                    shards[s].handlers[k] = LastDeclared(shards[s].api, k)
    /\ \A c \in CallIds :
          /\ calls[c].handler # Undef
          /\ calls[c].shardId \in DOMAIN shards
          /\ shards[calls[c].shardId].vm = calls[c].vm
          /\ shards[calls[c].shardId].api.t = "array"
          => calls[c].handler =
                LastDeclared(shards[calls[c].shardId].api,
                             HandlerKey(calls[c].method, calls[c].path))

\* a shard that declares one key twice is registered and a call to that key
\* has returned
C4_Witness ==
    \E c \in CallIds :
        /\ Done(c)
        /\ calls[c].shardId \in DOMAIN shards
        /\ shards[calls[c].shardId].vm = calls[c].vm
        /\ calls[c].handler = Str("[Yax data]")
        /\ \E i, j \in 1..Len(shards[calls[c].shardId].api.a) :
              /\ i < j
              /\ RouteKey(shards[calls[c].shardId].api, i) = "GET:/list"
              /\ RouteKey(shards[calls[c].shardId].api, j) = "GET:/list"

\* a handler program made of one write instruction of a double-quoted literal
SingleWrite(handler) ==
    /\ handler.t = "string"
    /\ Len(handler.s) >= 7
    /\ StartsWith(handler.s, "[Wo \"")
    /\ SubSeq(handler.s, Len(handler.s) - 1, Len(handler.s)) = "\"]"
    /\ \A i \in 6..(Len(handler.s) - 2) : CharAt(handler.s, i) \notin {"\"", "\n"}

\* the literal such a program writes
WrittenLiteral(handler) == Str(SubSeq(handler.s, 6, Len(handler.s) - 2))

\* C5: a call of GET /list whose handler is one write of a quoted literal,
\* run with no other call on its engine, returns that literal, the first
\* time and every time.
C5_WriteReturnsItsLiteral ==
    \A c \in CallIds :
        /\ Done(c) /\ calls[c].solo
        /\ calls[c].method = Str("GET") /\ calls[c].path = Str("/list")
        /\ SingleWrite(calls[c].handler)
        => calls[c].value = WrittenLiteral(calls[c].handler)

\* C6: two execute runs with the same source and the same seed variables
\* end with the same stack, the same variables and the same value.
C6_SameArgumentsSameOutcome ==
    \A c, d \in CallIds :
        /\ Done(c) /\ Done(d)
        /\ calls[c].handler = calls[d].handler
        /\ calls[c].context = calls[d].context
        => /\ calls[c].end.stack = calls[d].end.stack
           /\ calls[c].end.variables = calls[d].end.variables
           /\ calls[c].value = calls[d].value

\* C7: a call returns what it would return had it run alone on the engine
\* as it found it, whatever other calls of the same shard run meanwhile.
C7_ConcurrentCallsDoNotInterfere ==
    \A c \in CallIds :
        Done(c) =>
            calls[c].value = execute(calls[c].start, calls[c].handler, calls[c].context).value

\* the outermost execute of call c has dispatched its halt and has not
\* returned yet
HaltedNotReturned(c) ==
    /\ calls[c].st = "await"
    /\ Len(calls[c].frames) = 1
    /\ Dispatched(c)
    /\ LastInst(c).glyph = "Xul"

\* C8: from the halt of a run to its return no instruction of the run is
\* dispatched, and the stack and the variables of its engine do not change.
C8_NothingAfterHalt ==
    [][\A c \in CallIds :
          HaltedNotReturned(c) =>
              /\ calls'[c].frames[1].pc = calls[c].frames[1].pc
              /\ vms'[calls[c].vm].stack = vms[calls[c].vm].stack
              /\ vms'[calls[c].vm].variables = vms[calls[c].vm].variables]_vars

\* C9: execute returns the top of the stack when the stack is not empty at
\* the end of the run, and otherwise the variable mapping, which holds the
\* keys of the seed context.
C9_ReturnsTopOrVariables ==
    \A c \in CallIds :
        Done(c) =>
            IF Len(calls[c].end.stack) > 0
            THEN calls[c].value = calls[c].end.stack[Len(calls[c].end.stack)]
            ELSE /\ calls[c].value = Obj(calls[c].end.variables)
                 /\ DOMAIN calls[c].context \subseteq DOMAIN calls[c].value.f

\* one call returned the top of the stack, another the variable mapping
C9_Witness ==
    /\ \E c \in CallIds :
          Done(c) /\ Len(calls[c].end.stack) > 0 /\ calls[c].value.t = "string"
    /\ \E c \in CallIds :
          Done(c) /\ calls[c].end.stack = <<>> /\ calls[c].value.t = "object"

\* C10: an instruction whose opcode is not one of the fixed set raises no
\* error.
C10_UnknownOpcodeRaisesNoError ==
    \A c \in CallIds :
        Dispatched(c) /\ LastInst(c).glyph \notin OwnGlyphs => calls[c].st # "throw"

\* the instruction the run of the job dispatched last
JobDispatched == job.kind = "execute" /\ Len(job.frames) >= 1 /\ job.frames[1].pc > 1
JobLastInst == job.frames[1].insts[job.frames[1].pc - 1]

\* a write whose argument starts like an array or an object and is no JSON
Unparseable(inst) ==
    /\ inst.glyph = "Wo"
    /\ StartsWith(JoinArgs(inst.args), "{") \/ StartsWith(JoinArgs(inst.args), "[")
    /\ ~JSONParse(JoinArgs(inst.args)).ok

\* C11: a write instruction whose argument cannot be parsed as a literal
\* does not make execute fail.
C11_UnparseableWriteIsSkipped ==
    JobDispatched /\ Unparseable(JobLastInst) => job.st # "throw"

\* the handler of call c raised a fault in this step
FaultsNow(c) ==
    /\ calls'[c].st = "throw" /\ calls'[c].vm # 0
    /\ c > Len(calls) \/ calls[c].st # "throw"

\* shard s is after the step as it was before: its entry of the shard map
\* with its handler bindings, its registry entry and its engine
ShardUntouched(s) ==
    /\ s \in DOMAIN shards' /\ shards'[s] = shards[s]
    /\ s \in DOMAIN registry => s \in DOMAIN registry' /\ registry'[s] = registry[s]
    /\ shards[s].vm # 0 => vms'[shards[s].vm] = vms[shards[s].vm]

\* C12: a fault raised while running a handler of one shard changes nothing
\* of any other shard: shard-map entry, registry entry, handler bindings and
\* engine state stay as they were.
C12_FaultStaysInItsShard ==
    [][\A c \in 1..Len(calls') :
          FaultsNow(c) =>
              \A s \in DOMAIN shards \ {calls'[c].shardId} : ShardUntouched(s)]_vars

\* a handler of one shard has raised a fault while another shard has an
\* engine that holds a value
C12_Witness ==
    \E c \in CallIds :
        /\ calls[c].st = "throw" /\ calls[c].vm # 0
        /\ \E s \in DOMAIN shards \ {calls[c].shardId} :
              /\ s \in DOMAIN registry
              /\ shards[s].vm # 0
              /\ vms[shards[s].vm].stack # <<>>

\* the requests the router has received
ReqIds == IF job.kind = "mesh" THEN 1..Len(job.reqs) ELSE {}

\* the HTTP requests that passed the path check and whose handler returned
HttpClosed(r) ==
    job.reqs[r].via = "http" /\ job.reqs[r].kind = "call" /\ job.reqs[r].st = "closed"

\* the body of request r could not be decoded
BodyFailed(r) ==
    /\ job.reqs[r].method \in {Str("POST"), Str("PUT")}
    /\ job.reqs[r].body # ""
    /\ ~JSONParse(job.reqs[r].body).ok

\* routeToShard raised an exception for request r
CallFailed(r) == job.reqs[r].call # 0 /\ calls[job.reqs[r].call].st = "throw"

\* C13: an HTTP mesh request that passed the path check and whose body
\* decoding or routeToShard raised an exception is answered by exactly one
\* response, the failure response, and its handler returns; until then
\* nothing is sent for it.
C13_OneFailureResponse ==
    \A r \in ReqIds :
        job.reqs[r].via = "http" /\ job.reqs[r].kind = "call" =>
            /\ job.reqs[r].st # "closed" => job.reqs[r].sent = <<>>
            /\ job.reqs[r].st = "closed" => Len(job.reqs[r].sent) = 1
            /\ job.reqs[r].st = "closed" /\ (BodyFailed(r) \/ CallFailed(r)) =>
                  /\ job.reqs[r].sent[1].ok
                  /\ job.reqs[r].sent[1].status = Num(500)
                  /\ DOMAIN job.reqs[r].sent[1].body.f = {"error"}

\* a request whose body could not be decoded was answered, and a later
\* request whose handler raised a fault was answered too
C13_Witness ==
    \E r1, r2 \in ReqIds :
        /\ r1 < r2
        /\ HttpClosed(r1) /\ BodyFailed(r1)
        /\ HttpClosed(r2) /\ CallFailed(r2) /\ calls[job.reqs[r2].call].vm # 0

\* C14: an HTTP mesh request for an unknown shard id or an unbound
\* METHOD:path is answered with status 404.
C14_NotFoundIs404 ==
    \A r \in ReqIds :
        /\ HttpClosed(r) /\ CallFailed(r)
        /\ calls[job.reqs[r].call].handler = Undef
        => job.reqs[r].sent[1].status = Num(404)

\* the status a handler result specifies: its status member if it has one
Specifies(result) == result.t = "object" /\ "status" \in DOMAIN result.f

\* C16: an HTTP mesh request whose dispatch returned a result is answered
\* with the status the result specifies, or 200 when it specifies none.
C16_StatusFromResult ==
    \A r \in ReqIds :
        /\ HttpClosed(r)
        /\ job.reqs[r].call # 0 /\ calls[job.reqs[r].call].st = "done"
        => job.reqs[r].sent[1].status =
              IF Specifies(calls[job.reqs[r].call].value)
              THEN calls[job.reqs[r].call].value.f.status
              ELSE Num(200)

\* C15: every mesh:call envelope received on the open connection and
\* handled to its end was answered by exactly one message, and that message
\* carries the requestId of the call, also when the call failed.
C15_AnswerCarriesRequestId ==
    \A r \in ReqIds :
        job.reqs[r].via = "ws" /\ job.reqs[r].kind = "call" /\ job.reqs[r].st = "closed" =>
            /\ Len(job.reqs[r].sent) = 1
            /\ GetProp(job.reqs[r].sent[1], Str("requestId")) = job.reqs[r].requestId

\* deep equality of two trees compares them by their keys, whatever the
\* order of the keys
RECURSIVE Canon(_)
Canon(v) ==
    IF IsContainer(v)
    THEN [t |-> v.t,
          f |-> [k \in {v.es[i].k : i \in 1..Len(v.es)} |-> Canon(At(v.es, k))]]
    ELSE v

\* no key and no string value of the tree is a dictionary token
RECURSIVE NoCollision(_)
NoCollision(v) ==
    IF IsContainer(v)
    THEN \A i \in 1..Len(v.es) :
            /\ (v.t = "object" => v.es[i].k \notin DictTokens)
            /\ NoCollision(v.es[i].v)
    ELSE v.t = "string" => v.s \notin DictTokens

Encoded == job.kind = "codec" /\ job.st \in {"encoded", "decoded"}
Decoded == job.kind = "codec" /\ job.st = "decoded"

\* C17: decode(encode(tree)) equals tree for every tree of JSON scalars,
\* nested objects and arrays of which no key and no string value is a
\* dictionary token.
C17_DecodeInvertsEncode ==
    Decoded /\ NoCollision(job.tree) => Canon(job.back) = Canon(job.tree)

\* C18: the dictionary is collision-free: the reverse dictionary maps the
\* token of every long form of the dictionary back to that long form.
C18_DictionaryIsBijective ==
    job.kind = "codec" =>
        \A i \in DOMAIN dictionary : reverseDictionary[dictionary[i][2]] = dictionary[i][1]

\* the separator-delimited sequence of the path and value tokens of the
\* entries es of a flat tree, each token led by the separator
RECURSIVE TokenString(_)
TokenString(es) ==
    IF Len(es) = 0 THEN ""
    ELSE separator \o Short(es[1].k) \o separator
         \o (IF es[1].v.t = "string" THEN Short(es[1].v.s) ELSE ToText(es[1].v))
         \o TokenString(Tail(es))

\* C19: encode of a flat tree is the sequence of its alternating path and
\* value tokens in key order, known keys and known string values replaced
\* by their tokens, each led by the separator; for the tree of the README
\* it is the string "⟁s⟁users⟁P⟁3001⟁m⟁G".
C19_EncodeOfFlatTree ==
    /\ Encoded /\ job.tree \in FlatTrees \cup {ReadmeTree} =>
           job.scx = TokenString(job.tree.es)
    /\ Encoded /\ job.tree = ReadmeTree => job.scx = "⟁s⟁users⟁P⟁3001⟁m⟁G"

\* C20: normalize(normalize(x)) equals normalize(x) for every tree x of
\* nested objects and arrays, whatever its keys are, keys that carry the
\* prefix character more than once included.
C20_NormalizeIsIdempotent ==
    job.kind = "xjson" /\ job.st = "twice" => Canon(job.twice) = Canon(job.once)

\* the boot call b returns in this step
BootReturns(b) == boots'[b].st = "done" /\ (b > Len(boots) \/ boots[b].st # "done")
\* the shard list and the port list of a configuration
ShardList(config) == ConfigShards(HiveConfig(config).v)
PortList(config) ==
    IF Truthy(Field(HiveConfig(config).v, "mesh"))
    THEN OrElse(Field(Field(HiveConfig(config).v, "mesh"), "ports"), Arr(<<>>)).a
    ELSE <<>>
\* the indices at which both lists have an entry
Overlap(config) ==
    {i \in 1..Len(ShardList(config)) : i <= Len(PortList(config))}
\* the identifier a definition declares (undefined: none)
DeclaredId(def) == IF ShardOf(def).ok THEN Field(ShardOf(def).v, "id") ELSE Undef

\* C21: when a boot returns, the hive is booted, the mesh descriptor maps
\* the identifier declared by shards[i] to ports[i] for every index i that
\* both lists have, and it has no new key but those identifiers.
C21_PortsFollowTheShardList ==
    [][\A b \in 1..Len(boots') :
          BootReturns(b) =>
              /\ booted'
              /\ \A i \in Overlap(boots'[b].config) :
                    Truthy(DeclaredId(ShardList(boots'[b].config)[i])) =>
                        MapGet(mesh'.ports, DeclaredId(ShardList(boots'[b].config)[i]))
                            = PortList(boots'[b].config)[i]
              /\ DOMAIN mesh'.ports \ DOMAIN mesh.ports \subseteq
                    {DeclaredId(ShardList(boots'[b].config)[i]) :
                        i \in Overlap(boots'[b].config)}]_vars

\* the shard a createShard call registered
Registered(r) == r.h.shards[r.id]

\* C22: createShard of the compact encoding of a definition tree registers
\* a shard with the same id, the same port and the same bindings as
\* createShard of the tree itself.
C22_EncodedDefinitionGivesTheSameShard ==
    job.kind = "create" /\ job.direct # NotCalled /\ job.coded # NotCalled =>
        /\ job.direct.st = "ok" /\ job.coded.st = "ok"
        /\ job.coded.id = job.direct.id
        /\ Registered(job.coded).port = Registered(job.direct).port
        /\ Registered(job.coded).handlers = Registered(job.direct).handlers

\* the number of instructions a run of insts dispatches when it starts with
\* the halted flag down: up to its first halt, all of them if it has none
UpToOwnHalt(insts) ==
    IF \E i \in 1..Len(insts) : insts[i].glyph = "Xul"
    THEN CHOOSE i \in 1..Len(insts) :
            /\ insts[i].glyph = "Xul"
            /\ \A j \in 1..(i - 1) : insts[j].glyph # "Xul"
    ELSE Len(insts)

\* C23: a call that ran with no other call on its engine found the halted
\* flag down and dispatched every instruction of its handler up to the
\* handler's own halt, whatever earlier calls of the shard did.
C23_HaltedIsDownAtEveryStart ==
    \A c \in CallIds :
        Done(c) /\ calls[c].solo =>
            /\ ~Truthy(calls[c].start.halted)
            /\ calls[c].frames[1].pc - 1 = UpToOwnHalt(calls[c].frames[1].insts)

\* the outermost execute of the job dispatches its p-th instruction in this
\* step
DispatchesLine(p) ==
    /\ job.kind = "execute"
    /\ \/ job.st = "new" /\ p = 1
       \/ job.st = "await" /\ Len(job.frames) = 1 /\ p = job.frames[1].pc
    /\ Len(job'.frames) >= 1
    /\ job'.frames[1].pc = p + 1
\* the p-th line of the program of the job
SourceLine(p) == SplitOn(job.code.s, "\n")[p]
LineNumbers == 1..Len(SplitOn(job.code.s, "\n"))

\* C24: a bind instruction written with a name pops the top of the stack
\* and binds it to the name; written with no name it leaves the stack as it
\* was.
C24_BindPopsAndBinds ==
    [][\A p \in LineNumbers :
          DispatchesLine(p) =>
              /\ SourceLine(p) = "[Ch'en v]" /\ Len(job.vm.stack) > 0 =>
                    /\ job'.vm.stack = PopRest(job.vm.stack)
                    /\ MapGet(job'.vm.variables, "v") = PopValue(job.vm.stack)
              /\ SourceLine(p) = "[Ch'en]" => job'.vm.stack = job.vm.stack]_vars

\* C26: an iterate call that names a function, run on a stack that is not
\* empty, pops the top of the stack;
\* when that is an array with elements it enters the loop over the array
\* with the first element bound to item and the named function to run, and
\* when it is no array nothing is run.
C26_IterateRunsTheNamedFunction ==
    [][\A p \in LineNumbers :
          DispatchesLine(p) /\ SourceLine(p) = "[Sek forEach f]"
                            /\ Len(job.vm.stack) > 0 =>
              IF PopValue(job.vm.stack).t = "array" /\ Len(PopValue(job.vm.stack).a) > 0
              THEN /\ Len(job'.frames) >= 2
                   /\ job'.frames[2].k = "each"
                   /\ job'.frames[2].arr = PopValue(job.vm.stack).a
                   /\ job'.frames[2].fn = Str("f")
                   /\ MapGet(job'.vm.variables, "item") = PopValue(job.vm.stack).a[1]
              ELSE /\ job'.vm.stack = PopRest(job.vm.stack)
                   /\ Len(job'.frames) = 1]_vars

\* the run of the job has ended: its outermost execute returned or threw
Ended == job.kind = "execute" /\ job.st \in {"done", "throw"}

\* the outermost execute of a suspended run keeps its instruction list and
\* goes on from the instruction it stands at or from the one after it
InSourceOrder ==
    job.kind = "execute" /\ job.st = "await" /\ Len(job'.frames) >= 1 =>
        /\ job'.frames[1].insts = job.frames[1].insts
        /\ job'.frames[1].pc \in {job.frames[1].pc, job.frames[1].pc + 1}

\* a frame that stays in the run never moves backwards: an execute keeps or
\* raises its position, a loop keeps its array and keeps or raises its turn
NoBackwardJump ==
    job.kind = "execute" /\ job.st = "await" =>
        \A d \in 1..Len(job.frames) :
            d <= Len(job'.frames) /\ job'.frames[d].k = job.frames[d].k =>
                /\ job'.frames[d].pc >= job.frames[d].pc
                /\ job'.frames[d].i >= job.frames[d].i
                /\ job'.frames[d].arr = job.frames[d].arr

\* every position is within one of its list, every loop has started at most
\* as many runs as its array has elements
NestedRunsBounded ==
    job.kind = "execute" =>
        \A d \in 1..Len(job.frames) :
            /\ job.frames[d].pc <= Len(job.frames[d].insts) + 1
            /\ job.frames[d].i <= Len(job.frames[d].arr) + 1

\* C27: every execute run on a finite program terminates: the instructions
\* of the outermost list are dispatched at most once each and in source
\* order, no frame jumps backwards, the runs a loop starts are bounded by the
\* length of its array, and the run reaches its return or its throw.
C27_EveryRunTerminates ==
    /\ [][InSourceOrder /\ NoBackwardJump]_vars
    /\ [](NestedRunsBounded)
    /\ <>Ended

\* a run that looped over a two-element array, starting one nested run for
\* each element, has returned after its last instruction
C27_Witness ==
    /\ job.kind = "execute" /\ job.st = "done"
    /\ job.code = Str("[Wo [1,2]]\n[Sek forEach]\n[Pop f]")
    /\ job.frames[1].pc = 4
    /\ Len(job.vm.stack) = 2

\* the marker gSek pushes for an operation it does not know
Marker(operation) == Obj([operation |-> operation, executed |-> Bool(TRUE)])

\* C25: a call routed to a handler that is a name, neither an operation of
\* gSek nor a function of the engine, on an engine no call has used,
\* returns the marker of that name.
C25_NamedHandlerReturnsItsMarker ==
    \A c \in 1..Len(calls) :
        /\ calls[c].st = "done"
        /\ calls[c].vm # 0
        /\ calls[c].start = NewVM
        /\ calls[c].handler \in {Str("index"), Str("listUsers")}
        => calls[c].value = Marker(calls[c].handler)

\* C30: every key of the port assignment of the mesh descriptor is the id
\* of a shard of the shard map.
C30_PortsAreAssignedToShards == DOMAIN mesh.ports \subseteq DOMAIN shards

\* the position a boot call stood at before this step (a boot called in
\* this step starts at its first definition)
BootWas(b) == IF b <= Len(boots) THEN boots[b].idx ELSE 1

\* the definitions createShard was called with in this step
CreatedNow ==
    IF creates' # creates THEN RebootDefs
    ELSE {ShardList(boots'[b].config)[BootWas(b)] :
            b \in {c \in 1..Len(boots') : boots'[c].idx = BootWas(c) + 1}}

\* the shard is the one createShard makes of the definition def
MadeOf(shard, def) ==
    /\ ShardOf(def).ok
    /\ Truthy(Field(ShardOf(def).v, "id")) => shard.id = Field(ShardOf(def).v, "id")
    /\ shard.api = OrElse(Field(ShardOf(def).v, "api"), Arr(<<>>))
    /\ shard.handlers = CompileHandlers(Routes(shard.api), EmptyMap)

\* C28: no step of boot or createShard takes an id out of the shard map or
\* out of the registry, and every id of the shard map is bound to the shard
\* it was bound to before the step or to the shard of a definition
\* createShard was called with in the step.
C28_ShardsAreNeverLost ==
    [][/\ DOMAIN shards \subseteq DOMAIN shards'
       /\ DOMAIN registry \subseteq DOMAIN registry'
       /\ \A k \in DOMAIN shards' :
             \/ k \in DOMAIN shards /\ shards'[k] = shards[k]
             \/ \E def \in CreatedNow : shards'[k].id = k /\ MadeOf(shards'[k], def)]_vars

\* a second boot has declared users anew after a first boot registered
\* users and orders: orders is kept and users has the routes of the second
C28_Witness ==
    /\ Len(boots) = 2
    /\ boots[1].st = "done" /\ boots[2].st = "done"
    /\ boots[1].config.f.shards = Arr(<<DefHello, DefOrders>>)
    /\ boots[2].config.f.shards = Arr(<<DefDup>>)
    /\ Str("orders") \in DOMAIN shards
    /\ MadeOf(shards[Str("users")], DefDup)

\* VirtualMeshRouter.getRoutes() (virtual-mesh.js:103-119), the routes it
\* lists for the shard shardId: [method, path]
getRoutes(shardId) ==
    [i \in 1..Len(Routes(shards[shardId].api)) |->
        [method |-> Field(Routes(shards[shardId].api)[i], "method"),
         path |-> Field(Routes(shards[shardId].api)[i], "path")]]

\* the endpoints the registry and the route listing show for a shard
Shown(shardId) ==
    {getRoutes(shardId)[i] : i \in 1..Len(getRoutes(shardId))}
    \cup (IF shardId \in DOMAIN registry
          THEN {registry[shardId].endpoints[i] :
                    i \in 1..Len(registry[shardId].endpoints)}
          ELSE {})

\* the call ended in the NotFound of routeToShard: no shard, or no handler
NotFound(call) == call.st = "throw" /\ call.err.name = "Error" /\ call.err.message # ""

\* C29: the (method, path) pairs of a shard's registry entry are exactly
\* the keys of its handlers, and routeToShard finds a handler for every
\* endpoint the registry or the route listing shows for the shard.
C29_RegistryMatchesHandlers ==
    \A k \in DOMAIN shards :
        /\ k \in DOMAIN registry =>
              {HandlerKey(e.method, e.path) :
                  e \in {registry[k].endpoints[i] :
                            i \in 1..Len(registry[k].endpoints)}}
                  = DOMAIN shards[k].handlers
        /\ \A e \in Shown(k) : ~NotFound(routeToShard(k, e.method, e.path, Null))
====
